---- MODULE Spec2Model ----
(***************************************************************************)
(* A model of the mashangji record pipeline: the record store              *)
(* (services/storageService.ts), the backup export / import of             *)
(* components/Settings.tsx, the record form of components/AddRecord.tsx    *)
(* and the completion-response handling of services/geminiService.ts.      *)
(*                                                                         *)
(* Strings are sequences of characters.  A Chinese word of the source is   *)
(* one character of the model, written in pinyin (the module is ASCII):    *)
(*   "mingcheng" = the word for "name",  "moren" = "default",              *)
(*   "beizhu" = "note", "shi" / "fou" = yes / no,                          *)
(*   "quanzi liebiao" = "circle list", "jizhang jilu" = "records".         *)
(*                                                                         *)
(* Numbers are JavaScript numbers with at most one decimal digit; the      *)
(* model stores them in tenths (1900 is 190, 125 is 12.5, -1900 is -190).  *)
(***************************************************************************)
EXTENDS Integers, Sequences, FiniteSets, TLC

(***************************************************************************)
(* Bounds of the model.                                                    *)
(***************************************************************************)
MaxUserOps == 2
MaxImports == 2
MaxFaults == 1
MaxExports == 1
MaxArrayLen == 2
MaxCalls == 2
MaxTimers == 1
MaxAuthCalls == 3
MaxFetches == 2
MaxLoads == 3
MaxOps == 2

(***************************************************************************)
(* Strings.                                                                *)
(***************************************************************************)
Digits == <<"0", "1", "2", "3", "4", "5", "6", "7", "8", "9">>

IsDigit(c) == \E i \in 1..10 : Digits[i] = c

DigitVal(c) == (CHOOSE i \in 1..10 : Digits[i] = c) - 1

IsSpace(c) == c \in {" ", "\t", "\n", "\r"}

RECURSIVE TrimStart(_)
TrimStart(s) ==
    IF s # <<>> /\ IsSpace(Head(s)) THEN TrimStart(Tail(s)) ELSE s

RECURSIVE TrimEnd(_)
TrimEnd(s) ==
    IF s # <<>> /\ IsSpace(s[Len(s)])
    THEN TrimEnd(SubSeq(s, 1, Len(s) - 1))
    ELSE s

\* String.prototype.trim
Trim(s) == TrimEnd(TrimStart(s))

\* String.prototype.includes, for a one-character needle
Includes(s, c) == \E i \in 1..Len(s) : s[i] = c

\* String.prototype.startsWith / endsWith, for a one-character needle
StartsWith(s, c) == s # <<>> /\ s[1] = c
EndsWith(s, c) == s # <<>> /\ s[Len(s)] = c

\* String.prototype.split('\n')
RECURSIVE Split(_)
Split(text) ==
    IF \E i \in 1..Len(text) : text[i] = "\n"
    THEN LET i == CHOOSE j \in 1..Len(text) :
                      text[j] = "\n" /\ \A k \in 1..(j - 1) : text[k] # "\n"
         IN <<SubSeq(text, 1, i - 1)>> \o Split(SubSeq(text, i + 1, Len(text)))
    ELSE <<text>>

\* Array.prototype.join('\n')
RECURSIVE Join(_)
Join(lines) ==
    IF lines = <<>> THEN <<>>
    ELSE IF Len(lines) = 1 THEN lines[1]
    ELSE lines[1] \o <<"\n">> \o Join(Tail(lines))

\* String.prototype.replace(/\n/g, ' ')
ReplaceNewlines(s) == [i \in 1..Len(s) |-> IF s[i] = "\n" THEN " " ELSE s[i]]

(***************************************************************************)
(* Numbers.                                                                *)
(***************************************************************************)
RECURSIVE DigitsToInt(_)
DigitsToInt(ds) ==
    IF ds = <<>> THEN 0
    ELSE 10 * DigitsToInt(SubSeq(ds, 1, Len(ds) - 1)) + DigitVal(ds[Len(ds)])

RECURSIVE IntToDigits(_)
IntToDigits(n) ==
    IF n < 10 THEN <<Digits[n + 1]>>
    ELSE IntToDigits(n \div 10) \o <<Digits[(n % 10) + 1]>>

Abs(n) == IF n < 0 THEN -n ELSE n

\* `${n}` of a number n (in tenths): a minus sign, the integer digits, and
\* the decimal digit when there is one
NumberToString(n) ==
    (IF n < 0 THEN <<"-">> ELSE <<>>)
        \o IntToDigits(Abs(n) \div 10)
        \o (IF Abs(n) % 10 # 0 THEN <<".", Digits[(Abs(n) % 10) + 1]>> ELSE <<>>)

\* The longest prefix of s made of digits
RECURSIVE DigitPrefix(_)
DigitPrefix(s) ==
    IF s # <<>> /\ IsDigit(Head(s)) THEN <<Head(s)>> \o DigitPrefix(Tail(s)) ELSE <<>>

\* parseInt(s, 10) of a string that starts with an optional sign and a
\* digit (what the record pattern captures): the result in tenths
ParseInt(s) ==
    LET t == TrimStart(s)
        neg == t # <<>> /\ t[1] = "-"
        body == IF t # <<>> /\ t[1] \in {"+", "-"} THEN Tail(t) ELSE t
        ds == DigitPrefix(body)
    IN IF neg THEN -(10 * DigitsToInt(ds)) ELSE 10 * DigitsToInt(ds)

\* parseFloat(s) on what the amount field lets through (digits, at most
\* one point, at most one decimal digit in the model): the integer part
\* and the decimal part it reads
FloatParts(s) ==
    LET t == TrimStart(s)
        ip == DigitPrefix(t)
        rest == SubSeq(t, Len(ip) + 1, Len(t))
    IN [ip |-> ip,
        fp |-> IF rest # <<>> /\ rest[1] = "." THEN DigitPrefix(Tail(rest)) ELSE <<>>]

\* isNaN(parseFloat(s))
ParseFloatIsNaN(s) == FloatParts(s).ip = <<>> /\ FloatParts(s).fp = <<>>

\* parseFloat(s) when it is a number; the result in tenths
ParseFloat(s) ==
    10 * DigitsToInt(FloatParts(s).ip)
        + (IF FloatParts(s).fp = <<>> THEN 0 ELSE DigitVal(FloatParts(s).fp[1]))

(***************************************************************************)
(* Regular expressions of the import: a pattern is a sequence of items,    *)
(* each a character class with a repetition range, lazy or greedy, and the *)
(* capture group it belongs to (0 for none).  The pattern is anchored at   *)
(* both ends.  MatchFrom takes, for each item in turn, the first           *)
(* repetition count in the item's order of preference (fewest first for a  *)
(* lazy item, most first for a greedy one) with which the rest of the      *)
(* pattern matches: the match a backtracking matcher returns.              *)
(***************************************************************************)
Unbounded == -1

InClass(c, item) ==
    CASE item.cls = "any" -> c \notin {"\n", "\r"}
      [] item.cls = "space" -> IsSpace(c)
      [] item.cls = "digit" -> IsDigit(c)
      [] item.cls = "sign" -> c \in {"+", "-"}
      [] item.cls = "lit" -> c = item.ch

Lit(c) == [cls |-> "lit", ch |-> c, min |-> 1, max |-> 1, lazy |-> FALSE, grp |-> 0]
Spaces == [cls |-> "space", ch |-> "", min |-> 0, max |-> Unbounded, lazy |-> FALSE, grp |-> 0]
LazyAny(lo, g) == [cls |-> "any", ch |-> "", min |-> lo, max |-> Unbounded, lazy |-> TRUE, grp |-> g]
OptSign(g) == [cls |-> "sign", ch |-> "", min |-> 0, max |-> 1, lazy |-> FALSE, grp |-> g]
SomeDigits(g) == [cls |-> "digit", ch |-> "", min |-> 1, max |-> Unbounded, lazy |-> FALSE, grp |-> g]

\* \s*\|\s*
Bar == <<Spaces, Lit("|"), Spaces>>

\* How many characters of s from position i on are in the item's class
RECURSIVE RunLength(_, _, _)
RunLength(s, i, item) ==
    IF i <= Len(s) /\ InClass(s[i], item) THEN 1 + RunLength(s, i + 1, item) ELSE 0

SetMin(S) == CHOOSE x \in S : \A y \in S : x <= y
SetMax(S) == CHOOSE x \in S : \A y \in S : x >= y

NoMatch == [ok |-> FALSE, ends |-> <<>>]

RECURSIVE MatchFrom(_, _, _, _)
RECURSIVE TryCount(_, _, _, _, _, _)

\* Item k of the pattern taking n characters from position i, and the next
\* count in the item's order of preference when the rest does not match
TryCount(pat, k, s, i, n, hi) ==
    LET r == MatchFrom(pat, k + 1, s, i + n)
        nxt == IF pat[k].lazy THEN n + 1 ELSE n - 1
    IN IF r.ok THEN [ok |-> TRUE, ends |-> <<i + n>> \o r.ends]
       ELSE IF nxt < pat[k].min \/ nxt > hi THEN NoMatch
       ELSE TryCount(pat, k, s, i, nxt, hi)

\* The match of the items k.. of the pattern against s from position i:
\* whether there is one and, for each item, the position after it
MatchFrom(pat, k, s, i) ==
    IF k > Len(pat)
    THEN [ok |-> (i = Len(s) + 1), ends |-> <<>>]
    ELSE LET item == pat[k]
             run == RunLength(s, i, item)
             hi == IF item.max = Unbounded \/ run < item.max THEN run ELSE item.max
         IN IF hi < item.min THEN NoMatch
            ELSE TryCount(pat, k, s, i, IF item.lazy THEN item.min ELSE hi, hi)

\* The text captured by group g of a successful match
Group(pat, s, m, g) ==
    LET items == {k \in 1..Len(pat) : pat[k].grp = g}
        first == SetMin(items)
        last == SetMax(items)
        from == IF first = 1 THEN 1 ELSE m.ends[first - 1]
    IN SubSeq(s, from, m.ends[last] - 1)

\* /^ID:(.+?)\s*\|\s*<mingcheng>:(.+?)\s*\|\s*<moren>:(.+?)$/
CircleLinePattern ==
    <<Lit("I"), Lit("D"), Lit(":"), LazyAny(1, 1)>> \o Bar
        \o <<Lit("mingcheng"), Lit(":"), LazyAny(1, 2)>> \o Bar
        \o <<Lit("moren"), Lit(":"), LazyAny(1, 3)>>

\* /^(.+?)\s*\|\s*([+-]?\d+)\s*\|\s*(.+?)\s*\|\s*<beizhu>:(.*?)$/
RecordLinePattern ==
    <<LazyAny(1, 1)>> \o Bar \o <<OptSign(2), SomeDigits(2)>> \o Bar
        \o <<LazyAny(1, 3)>> \o Bar
        \o <<Lit("beizhu"), Lit(":"), LazyAny(0, 4)>>

\* The record pattern of the earlier handleImport:
\* /^(.+?)\s*\|\s*([+-]?\d+)\s*\|\s*(.+?)\s*\|\s*<beizhu>:(.*?)\s*\|\s*ID:(.+?)$/
LegacyRecordLinePattern ==
    <<LazyAny(1, 1)>> \o Bar \o <<OptSign(2), SomeDigits(2)>> \o Bar
        \o <<LazyAny(1, 3)>> \o Bar
        \o <<Lit("beizhu"), Lit(":"), LazyAny(0, 4)>> \o Bar
        \o <<Lit("I"), Lit("D"), Lit(":"), LazyAny(1, 5)>>

(***************************************************************************)
(* Program constants.                                                      *)
(***************************************************************************)
\* constants.ts: DEFAULT_CIRCLES (isDefault absent reads as false)
DEFAULT_CIRCLES ==
    << [id |-> <<"1">>, name |-> <<"weifenzu">>, isDefault |-> TRUE],
       [id |-> <<"2">>, name |-> <<"louxialinju">>, isDefault |-> FALSE],
       [id |-> <<"3">>, name |-> <<"laotongshi">>, isDefault |-> FALSE] >>

\* The circle name the export writes for a record whose circle is gone
UnknownCircleName == <<"weizhiquanzi">>

\* storageService.ts: generateId.  The k-th identifier generated; the
\* source draws it from the clock and a random number, so no two calls
\* return the same one.
GenId(k) == <<"g">> \o IntToDigits(k)

(***************************************************************************)
(* Sequences of rows.                                                      *)
(***************************************************************************)
Range(s) == {s[i] : i \in 1..Len(s)}

RECURSIVE FilterSeq(_, _)
\* The rows of s whose index satisfies keep (a function from 1..Len(s))
FilterSeq(s, keep) ==
    IF s = <<>> THEN <<>>
    ELSE (IF keep[1] THEN <<s[1]>> ELSE <<>>)
            \o FilterSeq(Tail(s), [i \in 1..(Len(s) - 1) |-> keep[i + 1]])

\* A lookup by name that finds nothing (C7 tells it from the source's)
C7_FindsNoName(circles, name) == FALSE

\* Array.prototype.find on a list of circles: the first circle with the
\* name, or none
HasName(circles, name) == \E i \in 1..Len(circles) : circles[i].name = name
FindByName(circles, name) ==
    circles[SetMin({i \in 1..Len(circles) : circles[i].name = name})]

HasId(rows, id) == \E i \in 1..Len(rows) : rows[i].id = id

\* Array.prototype.sort by timestamp, descending (the sort is stable)
RECURSIVE InsertDesc(_, _)
InsertDesc(sorted, r) ==
    IF sorted = <<>> THEN <<r>>
    ELSE IF Head(sorted).timestamp >= r.timestamp
         THEN <<Head(sorted)>> \o InsertDesc(Tail(sorted), r)
         ELSE <<r>> \o sorted

RECURSIVE SortDesc(_)
SortDesc(rows) ==
    IF rows = <<>> THEN <<>>
    ELSE InsertDesc(SortDesc(SubSeq(rows, 1, Len(rows) - 1)), rows[Len(rows)])

(***************************************************************************)
(* services/storageService.ts.  The store holds the rows of one user.  A   *)
(* call takes the fault f injected into it: "none", or the store operation *)
(* of the call that answers with an error.  Each operator returns the      *)
(* store after the call, what the call returned, whether it threw, and     *)
(* whether the fault was hit.                                              *)
(***************************************************************************)
\* supabase.from('circles').upsert(rows): a row with a known id is
\* rewritten in place, the others are appended
RECURSIVE UpsertCircles(_, _)
UpsertCircles(db, circles) ==
    IF circles = <<>> THEN db
    ELSE LET c == Head(circles)
             row == [id |-> c.id, name |-> c.name, isDefault |-> c.isDefault]
             db1 == IF HasId(db, c.id)
                    THEN [i \in 1..Len(db) |-> IF db[i].id = c.id THEN row ELSE db[i]]
                    ELSE Append(db, row)
         IN UpsertCircles(db1, Tail(circles))

\* syncCircles: upsert the list, then delete the rows not in it
syncCircles(db, circles, f) ==
    LET upserted == UpsertCircles(db, circles)
        kept == FilterSeq(upserted,
                          [i \in 1..Len(upserted) |-> HasId(circles, upserted[i].id)])
    IN IF f = "upsert" THEN [db |-> db, threw |-> TRUE, hit |-> TRUE]
       ELSE IF f = "delete" THEN [db |-> upserted, threw |-> TRUE, hit |-> TRUE]
       ELSE [db |-> kept, threw |-> FALSE, hit |-> FALSE]

\* The default circles of a new user, each with a generated id
NewDefaultCircles(counter) ==
    [i \in 1..Len(DEFAULT_CIRCLES) |->
        [DEFAULT_CIRCLES[i] EXCEPT !.id = GenId(counter + i)]]

\* fetchCircles: the user's circles; the literal defaults when the read
\* fails; new defaults, written to the store, when the user has none
fetchCircles(db, counter, f) ==
    IF f = "select"
    THEN [db |-> db, ret |-> DEFAULT_CIRCLES, threw |-> FALSE, hit |-> TRUE,
          counter |-> counter]
    ELSE IF db = <<>>
    THEN LET fresh == NewDefaultCircles(counter)
             r == syncCircles(db, fresh, f)
         IN [db |-> r.db, ret |-> fresh, threw |-> r.threw, hit |-> r.hit,
             counter |-> counter + Len(DEFAULT_CIRCLES)]
    ELSE [db |-> db, ret |-> db, threw |-> FALSE, hit |-> FALSE, counter |-> counter]

\* fetchRecords: the user's records, newest first; none when the read fails
fetchRecords(db, f) ==
    IF f = "select"
    THEN [ret |-> <<>>, hit |-> TRUE]
    ELSE [ret |-> SortDesc(db), hit |-> FALSE]

\* addRecordsBatch: one insert of all the rows (ids are the primary key)
\* updateRecord: the row of the record's id gets its circle, amount, date
\* and note
updateRecord(db, record, f) ==
    IF f = "update" THEN [db |-> db, threw |-> TRUE, hit |-> TRUE]
    ELSE [db |-> [i \in 1..Len(db) |->
                     IF db[i].id = record.id
                     THEN [db[i] EXCEPT !.circleId = record.circleId,
                                        !.amount = record.amount,
                                        !.date = record.date, !.note = record.note]
                     ELSE db[i]],
          threw |-> FALSE, hit |-> FALSE]

\* An insert that keeps the rows before the one that fails (C22 tells it
\* from the source's)
C22_InsertsUntilFailure(db, rows, f) ==
    IF rows = <<>> THEN [db |-> db, threw |-> FALSE, hit |-> FALSE]
    ELSE IF f = "insert" THEN [db |-> db \o <<rows[1]>>, threw |-> TRUE, hit |-> TRUE]
    ELSE [db |-> db \o rows, threw |-> FALSE, hit |-> FALSE]

addRecordsBatch(db, rows, f) ==
    IF rows = <<>> THEN [db |-> db, threw |-> FALSE, hit |-> FALSE]
    ELSE IF f = "insert" THEN [db |-> db, threw |-> TRUE, hit |-> TRUE]
    ELSE IF \E i \in 1..Len(rows) :
                HasId(db, rows[i].id) \/ \E j \in 1..(i - 1) : rows[j].id = rows[i].id
         THEN [db |-> db, threw |-> TRUE, hit |-> FALSE]
    ELSE [db |-> db \o rows, threw |-> FALSE, hit |-> FALSE]

\* deleteAllRecords
deleteAllRecords(db, f) ==
    IF f = "delete" THEN [db |-> db, threw |-> TRUE, hit |-> TRUE]
    ELSE [db |-> <<>>, threw |-> FALSE, hit |-> FALSE]

(***************************************************************************)
(* components/Settings.tsx: the backup text.                               *)
(***************************************************************************)
Sep == <<" ", "|", " ">>

CirclesHeader == <<"[", "quanziliebiao", "]">>
RecordsHeader == <<"[", "jizhangjilu", "]">>

\* The lines before the circle section (title, export time, user id, rule)
ExportPreamble ==
    << <<"[", "mashangjizhangbenshujudaochu", "]">>,
       <<"daochushijian", ":", " ", "t">>,
       <<"yonghu", "I", "D", ":", " ", "u">>,
       <<"-", "-", "-", "-">>,
       <<>> >>

\* `ID:${c.id} | <mingcheng>:${c.name} | <moren>:${c.isDefault ? shi : fou}`
ExportCircleLine(c) ==
    <<"I", "D", ":">> \o c.id \o Sep \o <<"mingcheng", ":">> \o c.name \o Sep
        \o <<"moren", ":">> \o <<IF c.isDefault THEN "shi" ELSE "fou">>

\* `${r.date} | ${amountStr} | ${circleName} | <beizhu>:${safeNote}`
ExportRecordLine(r, cs) ==
    LET circleName == IF HasId(cs, r.circleId)
                      THEN (CHOOSE c \in Range(cs) : c.id = r.circleId).name
                      ELSE UnknownCircleName
        safeNote == ReplaceNewlines(r.note)
        amountStr == IF r.amount > 0 THEN <<"+">> \o NumberToString(r.amount)
                     ELSE NumberToString(r.amount)
    IN r.date \o Sep \o amountStr \o Sep \o circleName \o Sep
          \o <<"beizhu", ":">> \o safeNote

\* The record line of the earlier export, which ends with the record's id
LegacyExportRecordLine(r, cs) == ExportRecordLine(r, cs) \o Sep \o <<"I", "D", ":">> \o r.id

\* handleExport: the text built from the fetched circles and records
ExportText(cs, rs) ==
    Join(ExportPreamble
            \o <<CirclesHeader>> \o [i \in 1..Len(cs) |-> ExportCircleLine(cs[i])]
            \o << <<>>, RecordsHeader >>
            \o [i \in 1..Len(rs) |-> ExportRecordLine(rs[i], cs)])

\* One circle line of a backup: the parsed circle, or no match
ParseCircleLine(line) ==
    LET m == MatchFrom(CircleLinePattern, 1, line, 1)
    IN IF m.ok
       THEN [ok |-> TRUE,
             id |-> Trim(Group(CircleLinePattern, line, m, 1)),
             name |-> Trim(Group(CircleLinePattern, line, m, 2)),
             isDefault |-> (Trim(Group(CircleLinePattern, line, m, 3)) = <<"shi">>)]
       ELSE [ok |-> FALSE, id |-> <<>>, name |-> <<>>, isDefault |-> FALSE]

\* One record line of a backup: the parsed record, or no match
ParseRecordLine(line) ==
    LET m == MatchFrom(RecordLinePattern, 1, line, 1)
    IN IF m.ok
       THEN [ok |-> TRUE,
             date |-> Trim(Group(RecordLinePattern, line, m, 1)),
             amount |-> ParseInt(Trim(Group(RecordLinePattern, line, m, 2))),
             circleName |-> Trim(Group(RecordLinePattern, line, m, 3)),
             note |-> Trim(Group(RecordLinePattern, line, m, 4))]
       ELSE [ok |-> FALSE, date |-> <<>>, amount |-> 0, circleName |-> <<>>,
             note |-> <<>>]

\* The line scan of handleImport.  st is the scan's state: the section and
\* the circles and records parsed so far.
ScanLine(st, line) ==
    LET trimmedLine == Trim(line)
        pc == ParseCircleLine(trimmedLine)
        pr == ParseRecordLine(trimmedLine)
    IN IF trimmedLine = <<>> THEN st
       ELSE IF StartsWith(trimmedLine, "[") /\ EndsWith(trimmedLine, "]")
       THEN [st EXCEPT !.section =
                IF Includes(trimmedLine, "quanziliebiao") THEN "circles"
                ELSE IF Includes(trimmedLine, "jizhangjilu") THEN "records"
                ELSE ""]
       ELSE IF st.section = "circles"
       THEN IF pc.ok
            THEN [st EXCEPT !.circles = Append(@,
                     [id |-> pc.id, name |-> pc.name, isDefault |-> pc.isDefault])]
            ELSE st
       ELSE IF st.section = "records"
       THEN IF pr.ok
            THEN [st EXCEPT !.records = Append(@,
                     [date |-> pr.date, amount |-> pr.amount,
                      circleName |-> pr.circleName, note |-> pr.note])]
            ELSE st
       ELSE st

\* A scan that ends at the first line that adds nothing (C24 tells it
\* from the source's)
RECURSIVE C24_ScanLinesUntilNoMatch(_, _)
C24_ScanLinesUntilNoMatch(st, lines) ==
    IF lines = <<>> THEN st
    ELSE LET next == ScanLine(st, Head(lines))
         IN IF next = st /\ Trim(Head(lines)) # <<>> THEN st
            ELSE C24_ScanLinesUntilNoMatch(next, Tail(lines))

RECURSIVE ScanLines(_, _)
ScanLines(st, lines) ==
    IF lines = <<>> THEN st ELSE ScanLines(ScanLine(st, Head(lines)), Tail(lines))

ParseBackup(content) ==
    ScanLines([section |-> "", circles |-> <<>>, records |-> <<>>], Split(content))

\* Staging with the identifier written in the file, as the earlier
\* handleImport did (C2 tells it from the current one)
C2_StagedWithFileId(pc, k) == [id |-> pc.id, name |-> pc.name, isDefault |-> pc.isDefault]

\* The circle staged for a parsed circle that is new to the account
StagedCircle(pc, k) == [id |-> GenId(k), name |-> pc.name, isDefault |-> pc.isDefault]

\* The circle merge of handleImport: a parsed circle is skipped when a
\* circle of the list has its id, or its name; it is staged otherwise.
RECURSIVE MergeCircles(_, _, _, _)
MergeCircles(parsed, circlesToSync, counter, newCirclesCount) ==
    IF parsed = <<>>
    THEN [circlesToSync |-> circlesToSync, counter |-> counter,
          newCirclesCount |-> newCirclesCount]
    ELSE LET pc == Head(parsed)
         IN IF HasId(circlesToSync, pc.id) \/ HasName(circlesToSync, pc.name)
            THEN MergeCircles(Tail(parsed), circlesToSync, counter, newCirclesCount)
            ELSE MergeCircles(Tail(parsed),
                              Append(circlesToSync, StagedCircle(pc, counter + 1)),
                              counter + 1, newCirclesCount + 1)

\* A duplicate test that matches nothing (C1 tells it from the source's)
C1_NeverDuplicate(r, pr, targetCircleId) == FALSE

\* A duplicate test that does not look at the note (C3 tells it from the
\* source's)
C3_DuplicateIgnoringNote(r, pr, targetCircleId) ==
    /\ r.date = pr.date
    /\ r.amount = pr.amount
    /\ \/ (targetCircleId = <<>> /\ r.circleId = <<>>)
       \/ r.circleId = targetCircleId

\* The duplicate test of handleImport ('' is falsy: !targetCircleId)
IsDuplicate(r, pr, targetCircleId) ==
    /\ r.date = pr.date
    /\ r.amount = pr.amount
    /\ r.note = pr.note
    /\ \/ (targetCircleId = <<>> /\ r.circleId = <<>>)
       \/ r.circleId = targetCircleId

\* new Date(date).getTime() as the store gives it back: the digits of a
\* YYYY-MM-DD date read as one number (later dates are larger), 0 for
\* anything else (NaN is stored as null, and Number(null) is 0)
DateToTime(date) ==
    IF /\ Len(date) = 10
       /\ date[5] = "-" /\ date[8] = "-"
       /\ \A i \in {1, 2, 3, 4, 6, 7, 9, 10} : IsDigit(date[i])
    THEN DigitsToInt(SubSeq(date, 1, 4) \o SubSeq(date, 6, 7) \o SubSeq(date, 9, 10))
    ELSE 0

(***************************************************************************)
(* services/geminiService.ts: the completion text.  The text is a sequence *)
(* of lexical tokens: punctuation, string literals (s is the string's      *)
(* characters), number literals (n is the number, in tenths), the literals *)
(* true, false and null, the markdown fence, words of commentary and white *)
(* space.  No string of the model holds a brace, a bracket or a fence.     *)
(***************************************************************************)
Tok(k, s) == [k |-> k, s |-> s, n |-> 0]
NumTok(n) == [k |-> "num", s |-> <<>>, n |-> n]
Punct(c) == Tok("punct", <<c>>)
StrTok(s) == Tok("str", s)
Fence == Tok("fence", <<>>)
Word(w) == Tok("word", <<w>>)
Ws == Tok("ws", <<>>)

\* JSON values, and undefined
JVal(t, n, s, items, keys) == [t |-> t, n |-> n, s |-> s, items |-> items, keys |-> keys]
JNum(n) == JVal("num", n, <<>>, <<>>, <<>>)
JStr(s) == JVal("str", 0, s, <<>>, <<>>)
JBool(b) == JVal("bool", IF b THEN 1 ELSE 0, <<>>, <<>>, <<>>)
JNull == JVal("null", 0, <<>>, <<>>, <<>>)
JArr(items) == JVal("arr", 0, <<>>, items, <<>>)
JObj(keys, items) == JVal("obj", 0, <<>>, items, keys)
Undefined == JVal("undefined", 0, <<>>, <<>>, <<>>)

\* replace(/```json/g, '').replace(/```/g, '')
RECURSIVE RemoveFenceJson(_)
RemoveFenceJson(ts) ==
    IF ts = <<>> THEN <<>>
    ELSE IF Len(ts) >= 2 /\ ts[1] = Fence /\ ts[2] = Word("json")
    THEN RemoveFenceJson(SubSeq(ts, 3, Len(ts)))
    ELSE <<ts[1]>> \o RemoveFenceJson(Tail(ts))

RemoveFences(ts) == SelectSeq(RemoveFenceJson(ts), LAMBDA t : t # Fence)

\* trim
RECURSIVE TrimTokens(_)
TrimTokens(ts) ==
    IF ts # <<>> /\ ts[1] = Ws THEN TrimTokens(Tail(ts))
    ELSE IF ts # <<>> /\ ts[Len(ts)] = Ws THEN TrimTokens(SubSeq(ts, 1, Len(ts) - 1))
    ELSE ts

\* indexOf / lastIndexOf of a punctuation character: a position, or 0
IndexOf(ts, c) ==
    IF \E i \in 1..Len(ts) : ts[i] = Punct(c)
    THEN SetMin({i \in 1..Len(ts) : ts[i] = Punct(c)}) ELSE 0

LastIndexOf(ts, c) ==
    IF \E i \in 1..Len(ts) : ts[i] = Punct(c)
    THEN SetMax({i \in 1..Len(ts) : ts[i] = Punct(c)}) ELSE 0

\* The clean-up of the completion text: the fences go, and the text is cut
\* to the span from its first '{' to its last '}' when there is one
ExtractJsonString(textResponse) ==
    LET jsonString == TrimTokens(RemoveFences(textResponse))
        firstCurly == IndexOf(jsonString, "{")
        lastCurly == LastIndexOf(jsonString, "}")
    IN IF firstCurly # 0 /\ lastCurly # 0 /\ lastCurly > firstCurly
       THEN SubSeq(jsonString, firstCurly, lastCurly)
       ELSE jsonString

\* JSON.parse.  Each operator returns whether it parsed, the value, and the
\* tokens left.
ParseFail == [ok |-> FALSE, val |-> Undefined, rest |-> <<>>]

RECURSIVE ParseValue(_)
RECURSIVE ParseElements(_, _)
RECURSIVE ParseMembers(_, _, _)

\* The elements of an array after '[' or ','
ParseElements(ts, items) ==
    LET v == ParseValue(ts)
    IN IF ~v.ok \/ v.rest = <<>> THEN ParseFail
       ELSE IF v.rest[1] = Punct("]")
       THEN [ok |-> TRUE, val |-> JArr(Append(items, v.val)), rest |-> Tail(v.rest)]
       ELSE IF v.rest[1] = Punct(",")
       THEN ParseElements(Tail(v.rest), Append(items, v.val))
       ELSE ParseFail

\* The members of an object after '{' or ','; a repeated key keeps its
\* place and takes the later value
ParseMembers(ts, keys, items) ==
    IF Len(ts) < 2 \/ ts[1].k # "str" \/ ts[2] # Punct(":") THEN ParseFail
    ELSE LET key == ts[1].s
             v == ParseValue(SubSeq(ts, 3, Len(ts)))
             seen == \E i \in 1..Len(keys) : keys[i] = key
             keys1 == IF seen THEN keys ELSE Append(keys, key)
             items1 == IF seen
                       THEN [i \in 1..Len(items) |->
                                IF keys[i] = key THEN v.val ELSE items[i]]
                       ELSE Append(items, v.val)
         IN IF ~v.ok \/ v.rest = <<>> THEN ParseFail
            ELSE IF v.rest[1] = Punct("}")
            THEN [ok |-> TRUE, val |-> JObj(keys1, items1), rest |-> Tail(v.rest)]
            ELSE IF v.rest[1] = Punct(",")
            THEN ParseMembers(Tail(v.rest), keys1, items1)
            ELSE ParseFail

ParseValue(ts) ==
    IF ts = <<>> THEN ParseFail
    ELSE LET t == ts[1]
         IN CASE t.k = "num" -> [ok |-> TRUE, val |-> JNum(t.n), rest |-> Tail(ts)]
              [] t.k = "str" -> [ok |-> TRUE, val |-> JStr(t.s), rest |-> Tail(ts)]
              [] t.k = "lit" ->
                    [ok |-> TRUE, rest |-> Tail(ts),
                     val |-> IF t.s = <<"null">> THEN JNull ELSE JBool(t.s = <<"true">>)]
              [] t = Punct("[") ->
                    IF Len(ts) >= 2 /\ ts[2] = Punct("]")
                    THEN [ok |-> TRUE, val |-> JArr(<<>>), rest |-> SubSeq(ts, 3, Len(ts))]
                    ELSE ParseElements(Tail(ts), <<>>)
              [] t = Punct("{") ->
                    IF Len(ts) >= 2 /\ ts[2] = Punct("}")
                    THEN [ok |-> TRUE, val |-> JObj(<<>>, <<>>),
                          rest |-> SubSeq(ts, 3, Len(ts))]
                    ELSE ParseMembers(Tail(ts), <<>>, <<>>)
              [] OTHER -> ParseFail

\* JSON.parse(jsonString): white space between tokens is skipped, and the
\* whole text must be one value
JSONParse(jsonString) ==
    LET r == ParseValue(SelectSeq(jsonString, LAMBDA t : t # Ws))
    IN IF r.ok /\ r.rest = <<>> THEN [ok |-> TRUE, val |-> r.val]
       ELSE [ok |-> FALSE, val |-> Undefined]

\* v[key] for a value that is not null: a member of an object, undefined
\* for anything else
Get(v, key) ==
    IF v.t = "obj" /\ \E i \in 1..Len(v.keys) : v.keys[i] = key
    THEN v.items[CHOOSE i \in 1..Len(v.keys) : v.keys[i] = key]
    ELSE Undefined

IsArray(v) == v.t = "arr"

\* Whether a value is truthy
Truthy(v) ==
    CASE v.t = "num" -> v.n # 0
      [] v.t = "str" -> v.s # <<>>
      [] v.t = "bool" -> v.n = 1
      [] v.t \in {"null", "undefined"} -> FALSE
      [] OTHER -> TRUE

\* The parse of the cleaned text and the shapes analyzeText accepts: the
\* list of candidates, or a throw.  Reading a property of null throws, and
\* the catch parses the same text again only when it is bracketed, which
\* throws as the first parse did.
Canonicalize(jsonString) ==
    LET p == JSONParse(jsonString)
        parsed == p.val
        records == Get(parsed, <<"records">>)
    IN IF ~p.ok \/ parsed.t = "null" THEN [threw |-> TRUE, data |-> <<>>]
       ELSE IF Truthy(records) /\ IsArray(records)
       THEN [threw |-> FALSE, data |-> records.items]
       ELSE IF IsArray(parsed)
       THEN [threw |-> FALSE, data |-> parsed.items]
       ELSE IF parsed.t = "obj"
       THEN IF Get(parsed, <<"amount">>) # Undefined \/ Get(parsed, <<"isWin">>) # Undefined
            THEN [threw |-> FALSE, data |-> <<parsed>>]
            ELSE IF Len(parsed.keys) = 1 /\ IsArray(parsed.items[1])
            THEN [threw |-> FALSE, data |-> parsed.items[1].items]
            ELSE [threw |-> FALSE, data |-> <<>>]
       ELSE [threw |-> FALSE, data |-> <<>>]

\* Number(s) of a string, in tenths: whether it is NaN, and the number
StringToNumber(s) ==
    LET t == Trim(s)
        neg == t # <<>> /\ t[1] = "-"
        body == IF t # <<>> /\ t[1] \in {"+", "-"} THEN Tail(t) ELSE t
        ip == DigitPrefix(body)
        rest == SubSeq(body, Len(ip) + 1, Len(body))
        fp == IF rest # <<>> /\ rest[1] = "." THEN Tail(rest) ELSE <<>>
        wellFormed == /\ ip # <<>> \/ fp # <<>>
                      /\ rest = <<>> \/ rest[1] = "."
                      /\ Len(fp) <= 1
                      /\ \A i \in 1..Len(fp) : IsDigit(fp[i])
        magnitude == 10 * DigitsToInt(ip) + (IF fp = <<>> THEN 0 ELSE DigitVal(fp[1]))
    IN IF t = <<>> THEN [nan |-> FALSE, n |-> 0]
       ELSE IF ~wellFormed THEN [nan |-> TRUE, n |-> 0]
       ELSE [nan |-> FALSE, n |-> IF neg THEN -magnitude ELSE magnitude]

\* Number(v) || 0, in tenths (an object, and an array other than [] and
\* [number], is NaN)
NumberOrZero(v) ==
    CASE v.t = "num" -> v.n
      [] v.t = "str" -> StringToNumber(v.s).n
      [] v.t = "bool" -> 10 * v.n
      [] v.t = "arr" /\ Len(v.items) = 1 /\ v.items[1].t = "num" -> v.items[1].n
      [] OTHER -> 0

\* One candidate of the list as the map of analyzeText coerces it
Coerce(item, todayStr) ==
    [amount |-> NumberOrZero(Get(item, <<"amount">>)),
     isWin |-> Truthy(Get(item, <<"isWin">>)),
     date |-> IF Truthy(Get(item, <<"date">>)) THEN Get(item, <<"date">>)
              ELSE JStr(todayStr),
     note |-> IF Truthy(Get(item, <<"note">>)) THEN Get(item, <<"note">>) ELSE JStr(<<>>),
     circleName |-> IF Truthy(Get(item, <<"circleName">>))
                    THEN Get(item, <<"circleName">>) ELSE Undefined]

\* /0|<ling>|<ping>|<mei><shu>|<mei><ying>/.test(text)
hasZeroKeyword(text) ==
    \E i \in 1..Len(text) :
        \/ text[i] \in {"0", "ling", "ping"}
        \/ i < Len(text) /\ text[i] = "mei" /\ text[i + 1] \in {"shu", "ying"}

\* A filter that drops every candidate of amount 0 (C10 tells it from the
\* source's)
C10_DropsEveryZero(item, text) == item.amount # 0

\* The filter of analyzeText
KeepCandidate(item, text) ==
    IF item.amount = 0 THEN hasZeroKeyword(text) ELSE TRUE

\* data.map(...).filter(...): reading a property of a null element throws
MapAndFilter(data, text, todayStr) ==
    LET mapped == [i \in 1..Len(data) |-> Coerce(data[i], todayStr)]
    IN IF \E i \in 1..Len(data) : data[i].t = "null"
       THEN [threw |-> TRUE, mapped |-> <<>>, result |-> <<>>]
       ELSE [threw |-> FALSE, mapped |-> mapped,
             result |-> SelectSeq(mapped, LAMBDA item : KeepCandidate(item, text))]

(***************************************************************************)
(* services/geminiService.ts: the request and the errors.  A message is a  *)
(* sequence of pieces of text; includes() looks for a piece.               *)
(***************************************************************************)
\* 'API Key is missing'
ApiKeyIsMissing == <<"API Key is missing">>

\* 'API Key weipeizhi, qing jiancha .env wenjian'
ApiKeyNotConfigured == <<"API Key weipeizhi, qing jiancha .env wenjian">>

\* 'AI fenxi shibai: '
AnalysisFailed == <<"AI fenxi shibai: ">>

\* The messages of the errors the runtime throws: fetch that cannot reach
\* the service, JSON.parse of a text that is not JSON, a property read of
\* null
FailedToFetch == <<"Failed to fetch">>
SyntaxErrorMessage == <<"Unexpected token">>
TypeErrorMessage == <<"Cannot read properties of null">>

\* No response yet
NoResponse == [kind |-> "none", status |-> 0, message |-> <<>>]

\* What becomes of the request: the service answers 200 with the
\* completion; it answers 401 or 500 with a JSON body that has a message
\* or with a body that has none; the request is rejected
Responses ==
    { [kind |-> "answered", status |-> 200, message |-> <<>>],
      [kind |-> "answered", status |-> 401, message |-> <<"Invalid token">>],
      [kind |-> "answered", status |-> 401,
       message |-> <<"Unauthorized: ", "API Key is missing">>],
      [kind |-> "answered", status |-> 500, message |-> <<>>],
      [kind |-> "rejected", status |-> 0, message |-> <<>>] }

\* response.ok
ResponseOk(response) == response.status >= 200 /\ response.status <= 299

\* errorData.message || `HTTP Error: ${response.status}`
HttpErrorMessage(response) ==
    IF response.message # <<>> THEN response.message
    ELSE <<"HTTP Error: ">> \o IntToDigits(response.status)

\* A catch that throws the error again as it is (C12 tells it from the
\* source's)
C12_RethrowAsIs(errorMessage) == errorMessage

\* A catch that drops the message of the error (C13 tells it from the
\* source's)
C13_RethrowWithoutMessage(errorMessage) == AnalysisFailed

\* The catch of analyzeText: the message of the error it throws
Rethrow(errorMessage) ==
    IF \E i \in 1..Len(errorMessage) : errorMessage[i] = ApiKeyIsMissing[1]
    THEN ApiKeyNotConfigured
    ELSE AnalysisFailed \o errorMessage

(***************************************************************************)
(* What the completion service may answer: the JSON text of a payload,     *)
(* bare, between markdown fences or inside commentary, or a text cut short.*)
(***************************************************************************)
RECURSIVE Serialize(_)
RECURSIVE SerializeItems(_)
RECURSIVE SerializeMembers(_, _)

SerializeItems(items) ==
    IF items = <<>> THEN <<>>
    ELSE Serialize(items[1])
            \o (IF Len(items) > 1 THEN <<Punct(","), Ws>> ELSE <<>>)
            \o SerializeItems(Tail(items))

SerializeMembers(keys, items) ==
    IF keys = <<>> THEN <<>>
    ELSE <<StrTok(keys[1]), Punct(":")>> \o Serialize(items[1])
            \o (IF Len(keys) > 1 THEN <<Punct(",")>> ELSE <<>>)
            \o SerializeMembers(Tail(keys), Tail(items))

Serialize(v) ==
    CASE v.t = "num" -> <<NumTok(v.n)>>
      [] v.t = "str" -> <<StrTok(v.s)>>
      [] v.t = "bool" -> <<Tok("lit", IF v.n = 1 THEN <<"true">> ELSE <<"false">>)>>
      [] v.t = "null" -> <<Tok("lit", <<"null">>)>>
      [] v.t = "arr" -> <<Punct("[")>> \o SerializeItems(v.items) \o <<Punct("]")>>
      [] v.t = "obj" -> <<Punct("{")>> \o SerializeMembers(v.keys, v.items)
                            \o <<Punct("}")>>

Wraps == {"bare", "fenced", "commented", "cut"}

Wrap(ts, w) ==
    CASE w = "bare" -> ts
      [] w = "fenced" -> <<Fence, Word("json"), Ws>> \o ts \o <<Ws, Fence>>
      [] w = "commented" -> <<Word("haode"), Ws>> \o ts \o <<Ws, Word("wanbi")>>
      [] w = "cut" -> SubSeq(ts, 1, Len(ts) - 1)

\* Candidate objects: a win of 800, a record of amount 0, and an object
\* with a note only
Candidates ==
    { JObj(<< <<"amount">>, <<"isWin">> >>, <<JNum(8000), JBool(TRUE)>>),
      JObj(<< <<"amount">>, <<"isWin">>, <<"note">> >>,
           <<JNum(0), JBool(FALSE), JStr(<<"liao", "tian">>)>>),
      JObj(<< <<"note">> >>, <<JStr(<<"liao", "tian">>)>>) }

\* Candidates with fields of other types, empty or missing: a loss
\* written as a negative amount, with every field; an amount that is not a
\* number, a number for the date and for the note, an empty circle name;
\* an amount in a string, nulls and an empty date; and an object with no
\* field
OddCandidates ==
    { JObj(<< <<"amount">>, <<"isWin">>, <<"date">>, <<"note">>, <<"circleName">> >>,
           <<JNum(-1900), JBool(FALSE), JStr(<<"2", "0", "2", "4", "-", "0", "2", "-", "1", "4">>),
             JStr(<<"n">>), JStr(<<"queshenhui">>)>>),
      JObj(<< <<"amount">>, <<"isWin">>, <<"date">>, <<"note">>, <<"circleName">> >>,
           <<JStr(<<"a", "b", "c">>), JStr(<<"false">>), JNum(202402060), JNum(50),
             JStr(<<>>)>>),
      JObj(<< <<"amount">>, <<"isWin">>, <<"date">>, <<"note">>, <<"circleName">> >>,
           <<JStr(<<"1", "2", ".", "5">>), JNull, JStr(<<>>), JNull, JNull>>),
      JObj(<<>>, <<>>) }

\* The sequences over S of length at most n
RECURSIVE SeqsUpTo(_, _)
SeqsUpTo(S, n) ==
    IF n = 0 THEN {<<>>}
    ELSE SeqsUpTo(S, n - 1)
            \cup {Append(q, x) : q \in {q \in SeqsUpTo(S, n - 1) : Len(q) = n - 1}, x \in S}

CandidateLists == SeqsUpTo(Candidates, MaxArrayLen)

\* The payloads: arrays of candidates, candidates, arrays under one key,
\* and values that are none of these
Payloads ==
    {JArr(l) : l \in CandidateLists}
        \cup Candidates
        \cup {JObj(<< <<"records">> >>, <<JArr(l)>>) : l \in CandidateLists}
        \cup {JObj(<< <<"data">> >>, <<JArr(l)>>) : l \in CandidateLists}
        \cup {JObj(<< <<"records">> >>, <<JArr(<<c>>)>>) : c \in OddCandidates}
        \cup { JObj(<< <<"code">>, <<"message">> >>, <<JNum(10), JStr(<<"bao", "qian">>)>>),
               JArr(<<JNull>>),
               JStr(<<"bao", "qian">>),
               JNum(420),
               JNull }

\* What the user typed or said: small talk, a draw, a win of 800, and a
\* text with <mei> and <shu> apart
SmallTalk == <<"sui", "bian", "shuo", "dian", "shen", "me">>
DrawText == <<"jin", "tian", "da", "ping", ",", "mei", "shu", "mei", "ying">>

Texts ==
    { SmallTalk,
      DrawText,
      <<"ying", "le", "8", "0", "0">>,
      <<"mei", "you", "shu">> }

(***************************************************************************)
(* Inputs of the model.                                                    *)
(***************************************************************************)
Date1 == <<"2", "0", "2", "4", "-", "0", "2", "-", "0", "6">>
Date2 == <<"2", "0", "2", "4", "-", "0", "2", "-", "1", "4">>
Today == <<"2", "0", "2", "4", "-", "0", "3", "-", "0", "1">>

Queshenhui == <<"queshenhui">>
Xinquan == <<"xinquan">>

\* What the user leaves in the record form before pressing save
SubmitForms ==
    { [amount |-> <<"1", "9", "0">>, isWin |-> FALSE, date |-> Date2, note |-> <<>>],
      [amount |-> <<"1", "2", ".", "5">>, isWin |-> TRUE, date |-> Date1, note |-> <<"n">>],
      [amount |-> <<>>, isWin |-> TRUE, date |-> Date1, note |-> <<>>] }

\* A record of the account the earlier version of the app exported
LegacyRecord ==
    [id |-> <<"r", "1">>, circleId |-> <<"1">>, amount |-> -1900, date |-> Date2,
     note |-> <<"n">>, timestamp |-> 0]

\* The names the user types in the circle manager
CircleNameInputs == {Queshenhui}

\* Backup texts written by hand (or kept from another account)
HandFile1 ==
    Join(<< CirclesHeader,
            <<"I", "D", ":", "9">> \o Sep \o <<"mingcheng", ":">> \o Xinquan,
            <<"I", "D", ":", "1">> \o Sep \o <<"mingcheng", ":">> \o Queshenhui \o Sep
                \o <<"moren", ":", "fou">>,
            RecordsHeader,
            Date2 \o Sep \o <<"-", "1", "9", "0">> \o Sep \o Queshenhui \o Sep
                \o <<"beizhu", ":">>,
            Date1 \o Sep \o <<"+", "8", "0", "0">> \o Sep \o Xinquan \o Sep
                \o <<"beizhu", ":", "n">>,
            Date2 \o Sep \o <<"-", "1", "9", "0">> \o Sep \o Xinquan \o Sep
                \o <<"beizhu", ":">> >>)

\* A backup of the earlier version (its record line ends with the record's
\* id), a line that lost a separator, and the same record as the current
\* version writes it
HandFile2 ==
    Join(<< RecordsHeader,
            LegacyExportRecordLine(LegacyRecord, DEFAULT_CIRCLES),
            Date2 \o <<" ", "-", "1", "9", "0">> \o Sep \o <<"weifenzu">> \o Sep
                \o <<"beizhu", ":", "n">>,
            ExportRecordLine(LegacyRecord, DEFAULT_CIRCLES) >>)

HandFile3 == Join(<< <<"h", "i">> >>)

HandFiles == {HandFile1, HandFile2, HandFile3}

\* The circles of the user of the AddRecord session: the default circle
\* and two the user added
Tongshiquan == <<"tong", "shi", "quan">>
Laotongxue == <<"lao", "tong", "xue">>
Tongshi == <<"tong", "shi">>

SessionCircles ==
    << [id |-> GenId(1), name |-> DEFAULT_CIRCLES[1].name, isDefault |-> TRUE],
       [id |-> GenId(2), name |-> Tongshiquan, isDefault |-> FALSE],
       [id |-> GenId(3), name |-> Laotongxue, isDefault |-> FALSE] >>

\* Dashboard's selectedCircleId when AddRecord opens: 'all' or a circle
SelectedCircleIds == {<<"all">>, SessionCircles[3].id}

\* The record form before anything fills it
NoForm == [amount |-> <<>>, isWin |-> TRUE, date |-> Today, note |-> <<>>]

\* What the user types or says: a win of 800; and white space
Utterance == <<"ying", "le", "8", "0", "0">>
TypedTexts == {Utterance, <<" ">>}

\* A ParsedRecord with the circle name (none: the empty name); a win of
\* 800 and a loss of 190
Win(circleName) ==
    [amount |-> 8000, isWin |-> TRUE, date |-> Date1, note |-> <<>>,
     circleName |-> circleName]
Loss(circleName) ==
    [amount |-> 1900, isWin |-> FALSE, date |-> Date2, note |-> <<"n">>,
     circleName |-> circleName]

\* A ParsedRecord whose amount came out negative
Negative ==
    [amount |-> -1900, isWin |-> TRUE, date |-> Date2, note |-> <<>>,
     circleName |-> <<>>]

\* The records the user of the session has: a win of 12.5 and a loss of 190
SessionRecords ==
    << [id |-> GenId(4), circleId |-> GenId(2), amount |-> 125, date |-> Date2,
        note |-> <<"n">>, timestamp |-> DateToTime(Today) - 1],
       [id |-> GenId(5), circleId |-> GenId(3), amount |-> -1900, date |-> Date1,
        note |-> <<>>, timestamp |-> DateToTime(Today) - 2] >>

\* AddRecord is opened to add a record, not to edit one
NoInitialRecord ==
    [id |-> <<>>, circleId |-> <<>>, amount |-> 0, date |-> <<>>, note |-> <<>>,
     timestamp |-> 0]

\* The effect that loads the record to edit into the form
EditForm(initialRecord) ==
    [amount |-> NumberToString(Abs(initialRecord.amount)),
     isWin |-> initialRecord.amount >= 0,
     date |-> initialRecord.date, note |-> initialRecord.note]

\* What an analyzeText call comes to: it throws, or it returns no record,
\* one record or two; a record names no circle, a circle of the user, a
\* part of the name of one, or a name the user does not have
Outcomes ==
    { [threw |-> TRUE, results |-> <<>>],
      [threw |-> FALSE, results |-> <<>>] }
        \cup { [threw |-> FALSE, results |-> <<Win(n)>>] :
                  n \in {<<>>, Laotongxue, Tongshi, Xinquan} }
        \cup { [threw |-> FALSE, results |-> <<Win(n), Loss(<<>>)>>] :
                  n \in {Laotongxue, Tongshi, Xinquan} }
        \cup { [threw |-> FALSE, results |-> <<Win(Xinquan), Loss(Xinquan)>>],
               [threw |-> FALSE, results |-> <<Negative, Loss(<<>>)>>] }

\* No getCurrentUser call has settled
NoSettled == [made |-> FALSE, rejected |-> FALSE, user |-> "null", how |-> ""]

(***************************************************************************)
(* State.                                                                  *)
(***************************************************************************)
VARIABLES
    dbCircles,       \* the store: the user's rows of table circles
    dbRecords,       \* the store: the user's rows of table records
    circles,         \* App state: circles
    records,         \* App state: records
    refreshPending,  \* a refreshData call has been asked for and not run
    idCounter,       \* how many identifiers generateId has returned
    now,             \* the clock, Date.now()
    faultBudget,     \* how many more store calls may fail
    userOps,         \* how many edits of the run's budget are used
    imports,         \* how many imports of the run's budget are used
    backup,          \* the backup file the last export wrote, if any
    imp,             \* handleImport: where it is and its locals; and, as
                     \* history, the store and the id count when it
                     \* started, whether it repeats the last import on the
                     \* store that import left, and for each record of
                     \* the loop the circle id it resolved to and whether
                     \* it was skipped
    lastDone,        \* history: the text of the last import that
                     \* succeeded, and the store as it left it
    an,              \* analyzeText: where it is, its arguments, the
                     \* completion the service answers with and its locals
    fetched,         \* history: what the last fetchCircles call that
                     \* returned has returned
    auth,            \* App: the state of the start-up, the getCurrentUser
                     \* calls in flight with their 5 s timers, the 3 s
                     \* timer; and, as history, how the last call settled
    ses              \* AddRecord: the state of the component, the
                     \* analyzeText calls in flight, the timers that are
                     \* set; and, as history, the result the form was last
                     \* filled with, the circle selected before that, and
                     \* the records it saved
VARIABLES
    inflight         \* the asynchronous calls that overlap: for each, the
                     \* function, where it is and its locals; a call that
                     \* has returned stays, as history

vars == <<dbCircles, dbRecords, circles, records, refreshPending, idCounter, now,
          faultBudget, userOps, imports, backup, imp, lastDone, an, ses, fetched, auth, inflight>>

\* The variables analyzeText does not touch
appVars == <<dbCircles, dbRecords, circles, records, refreshPending, idCounter, now,
             faultBudget, userOps, imports, backup, imp, lastDone, ses, fetched, auth, inflight>>

NoBackup == [made |-> 0, text |-> <<>>, circles |-> <<>>, records |-> <<>>]
NoImport == [made |-> FALSE, text |-> <<>>, circles |-> <<>>, records |-> <<>>]

\* Nothing was thrown
NoError == [status |-> 0, code |-> "", message |-> <<>>]

\* The error handleImport throws when the file has no valid line
NoValidData == [status |-> 0, code |-> "", message |-> <<"No valid data found">>]

\* The errors a store call of handleImport may throw: the text of a
\* message is a sequence of pieces, and a message includes a text when
\* the text is one of its pieces.  A refusal with status 403; an
\* insufficient privilege (42501); a violation of a row-level security
\* policy, worded in two ways; a duplicate key; an expired token; an error
\* with no message; and an amount out of range, which quotes the amount
StoreErrors ==
    { [status |-> 403, code |-> "", message |-> <<"Forbidden">>],
      [status |-> 0, code |-> "42501",
       message |-> <<"permission denied for table records">>],
      [status |-> 0, code |-> "",
       message |-> <<"new row violates ", "row-level security policy", " for table">>],
      [status |-> 0, code |-> "",
       message |-> <<"new row ", "violates row-level security">>],
      [status |-> 0, code |-> "23505",
       message |-> <<"duplicate key value violates unique constraint">>],
      [status |-> 0, code |-> "PGRST301", message |-> <<"JWT expired">>],
      [status |-> 0, code |-> "", message |-> <<>>],
      [status |-> 0, code |-> "22003",
       message |-> <<"value \"", "403", "00000\" is out of range for type integer">>] }

\* error.message.includes(text)
MessageIncludes(error, text) ==
    \E i \in 1..Len(error.message) : error.message[i] = text

\* The alert of the catch of handleImport: to sign in again, or that the
\* import failed
ImportAlert(error) ==
    IF \/ error.status = 403
       \/ error.code = "42501"
       \/ /\ error.message # <<>>
          /\ \/ MessageIncludes(error, "403")
             \/ MessageIncludes(error, "row-level security policy")
             \/ MessageIncludes(error, "violates row-level security")
    THEN "reauth"
    ELSE "failure"

ImpIdle ==
    [pc |-> "idle", text |-> <<>>, parsedCircles |-> <<>>, parsedRecords |-> <<>>,
     circlesToSync |-> <<>>, newCirclesCount |-> 0, updatedCircles |-> <<>>,
     currentRecords |-> <<>>, newRecords |-> <<>>, i |-> 0, alert |-> "",
     error |-> NoError,
     circlesBefore |-> <<>>, recordsBefore |-> <<>>, idBefore |-> 0,
     again |-> FALSE, resolved |-> <<>>, skipped |-> <<>>]

\* The start-up is over: the user is signed in and no call is in flight
AuthIdle ==
    [isInitializing |-> FALSE, user |-> "u1", view |-> "DASHBOARD", failsafe |-> FALSE,
     calls |-> <<>>, started |-> 0, settled |-> NoSettled]

InitCommon ==
    /\ dbCircles = <<>>
    /\ dbRecords = <<>>
    /\ circles = <<>>
    /\ records = <<>>
    /\ refreshPending = TRUE
    /\ idCounter = 0
    /\ now = DateToTime(Today)
    /\ backup = NoBackup
    /\ imp = ImpIdle
    /\ lastDone = NoImport
    /\ fetched = [made |-> FALSE, circles |-> <<>>]
    /\ auth = AuthIdle
    /\ inflight = <<>>

\* AddRecord is not mounted
SesIdle ==
    [mounted |-> FALSE, showImportModal |-> FALSE, importMode |-> "batch",
     importText |-> <<>>, tempTranscript |-> <<>>, isAnalyzing |-> FALSE,
     parsedResults |-> <<>>, feedback |-> "", lastImportText |-> <<>>,
     isListening |-> FALSE, circleId |-> <<>>, form |-> NoForm,
     calls |-> <<>>, started |-> 0, timers |-> <<>>,
     autofilled |-> <<>>, saved |-> <<>>, initial |-> NoInitialRecord,
     submitted |-> <<>>]

\* analyzeText is not running
AnIdle ==
    [pc |-> "idle", key |-> FALSE, text |-> <<>>, payload |-> Undefined, wrap |-> "",
     completion |-> <<>>, data |-> <<>>, mapped |-> <<>>, result |-> <<>>,
     error |-> "", requests |-> 0, response |-> NoResponse, cause |-> <<>>,
     message |-> <<>>]

\* The store answers every call
Init ==
    /\ InitCommon /\ faultBudget = 0 /\ userOps = 0 /\ imports = 0 /\ an = AnIdle
    /\ ses = SesIdle

\* analyzeText is called with a text, with or without a key, and the
\* service will answer with a payload in a wrapping
InitAnalyze ==
    /\ InitCommon /\ faultBudget = 0 /\ userOps = 0 /\ imports = 0
    /\ \E key \in BOOLEAN, text \in Texts, payload \in Payloads, wrap \in Wraps :
          an = [AnIdle EXCEPT !.pc = "start", !.key = key, !.text = text,
                              !.payload = payload, !.wrap = wrap,
                              !.completion = Wrap(Serialize(payload), wrap)]
    /\ ses = SesIdle

\* Up to MaxFaults store calls fail; the runs are one edit and one import
\* shorter
InitFaults ==
    /\ InitCommon /\ faultBudget = MaxFaults /\ userOps = 1 /\ imports = 1 /\ an = AnIdle
    /\ ses = SesIdle

\* What a fetchCircles call has returned (nothing when it threw)
Returned(r) == IF r.threw THEN fetched ELSE [made |-> TRUE, circles |-> r.ret]

\* The faults a call that makes the store operations ops may meet
Faults(ops) == IF faultBudget > 0 THEN {"none"} \cup ops ELSE {"none"}

Spend(hit) == faultBudget' = faultBudget - (IF hit THEN 1 ELSE 0)

\* No handler is running
Quiet == imp.pc \in {"idle", "done", "failed"} /\ ~refreshPending

(***************************************************************************)
(* App (unnamed/part_005).                                                 *)
(***************************************************************************)
\* refreshData: fetch the records and the circles, and keep them
refreshData ==
    /\ refreshPending
    /\ imp.pc \in {"idle", "done", "failed"}
    /\ \E fr \in Faults({"select"}), fc \in Faults({"select", "upsert", "delete"}) :
          LET rr == fetchRecords(dbRecords, fr)
              rc == fetchCircles(dbCircles, idCounter, fc)
          IN /\ fr = "none" \/ fc = "none"
             /\ fr = "none" \/ rr.hit
             /\ fc = "none" \/ rc.hit
             /\ Spend(rr.hit \/ rc.hit)
             /\ dbCircles' = rc.db
             /\ idCounter' = rc.counter
             /\ IF rc.threw
                THEN UNCHANGED <<circles, records>>
                ELSE /\ records' = rr.ret
                     /\ circles' = IF Len(rc.ret) > 0 THEN rc.ret ELSE DEFAULT_CIRCLES
             /\ fetched' = Returned(rc)
    /\ refreshPending' = FALSE
    /\ imp' = ImpIdle
    /\ UNCHANGED <<dbRecords, now, userOps, imports, backup, lastDone,
                   an, ses, auth, inflight>>

\* AddRecord.handleSubmit with a new record in the circle the form opens
\* with (the first of the list), then App.handleSaveRecord
handleSubmit ==
    /\ Quiet
    /\ userOps < MaxUserOps
    /\ \E form \in SubmitForms, f \in Faults({"insert"}) :
          LET numAmount == ParseFloat(form.amount)
              finalAmount == IF form.isWin THEN Abs(numAmount) ELSE -Abs(numAmount)
              circleId == IF circles # <<>> THEN circles[1].id ELSE <<>>
              recordToSave == [id |-> GenId(idCounter + 1), circleId |-> circleId,
                               amount |-> finalAmount, date |-> form.date,
                               note |-> form.note, timestamp |-> now]
              updatedRecords == SortDesc(<<recordToSave>> \o records)
              r == addRecordsBatch(dbRecords, <<recordToSave>>, f)
          IN IF form.amount = <<>> \/ ParseFloatIsNaN(form.amount)
             THEN /\ f = "none"
                  /\ UNCHANGED <<dbRecords, records, idCounter, now, faultBudget>>
             ELSE /\ f = "none" \/ r.hit
                  /\ Spend(r.hit)
                  /\ dbRecords' = r.db
                  /\ records' = IF r.threw THEN records ELSE updatedRecords
                  /\ idCounter' = idCounter + 1
                  /\ now' = now + 1
    /\ userOps' = userOps + 1
    /\ imp' = ImpIdle
    /\ UNCHANGED <<dbCircles, circles, refreshPending, imports, backup, lastDone,
                   an, ses, fetched, auth, inflight>>

\* App.handleUpdateCircles: keep the list, write it to the store; ask for a
\* refresh when the write fails
handleUpdateCircles(newCircles) ==
    \E f \in Faults({"upsert", "delete"}) :
        LET r == syncCircles(dbCircles, newCircles, f)
        IN /\ f = "none" \/ r.hit
           /\ Spend(r.hit)
           /\ circles' = newCircles
           /\ dbCircles' = r.db
           /\ refreshPending' = r.threw

\* CircleManager.handleAdd
handleAdd ==
    /\ Quiet
    /\ userOps < MaxUserOps
    /\ \E tempName \in CircleNameInputs :
          /\ Trim(tempName) # <<>>
          /\ handleUpdateCircles(Append(circles,
                 [id |-> GenId(idCounter + 1), name |-> Trim(tempName),
                  isDefault |-> FALSE]))
    /\ idCounter' = idCounter + 1
    /\ userOps' = userOps + 1
    /\ imp' = ImpIdle
    /\ UNCHANGED <<dbRecords, records, now, imports, backup, lastDone,
                   an, ses, fetched, auth, inflight>>

\* CircleManager.handleSaveEdit, on the first circle of the list
handleSaveEdit ==
    /\ Quiet
    /\ userOps < MaxUserOps
    /\ circles # <<>>
    /\ \E editingId \in {circles[1].id}, tempName \in CircleNameInputs :
          /\ Trim(tempName) # <<>>
          /\ handleUpdateCircles([i \in 1..Len(circles) |->
                 IF circles[i].id = editingId
                 THEN [circles[i] EXCEPT !.name = Trim(tempName)]
                 ELSE circles[i]])
    /\ userOps' = userOps + 1
    /\ imp' = ImpIdle
    /\ UNCHANGED <<dbRecords, records, idCounter, now, imports, backup, lastDone,
                   an, ses, fetched, auth, inflight>>

\* App.hasRecordsInCircle
hasRecordsInCircle(rs, circleId) == \E i \in 1..Len(rs) : rs[i].circleId = circleId

\* CircleManager.handleDelete, on a circle that shows the delete button
handleDelete ==
    /\ Quiet
    /\ userOps < MaxUserOps
    /\ \E i \in 1..Len(circles) :
          /\ ~circles[i].isDefault
          /\ IF hasRecordsInCircle(records, circles[i].id)
             THEN UNCHANGED <<circles, dbCircles, refreshPending, faultBudget>>
             ELSE handleUpdateCircles(
                      FilterSeq(circles, [k \in 1..Len(circles) |->
                                             circles[k].id # circles[i].id]))
    /\ userOps' = userOps + 1
    /\ imp' = ImpIdle
    /\ UNCHANGED <<dbRecords, records, idCounter, now, imports, backup, lastDone,
                   an, ses, fetched, auth, inflight>>

\* App.handleClearData
handleClearData ==
    /\ Quiet
    /\ userOps < MaxUserOps
    /\ \E f \in Faults({"delete"}) :
          LET r == deleteAllRecords(dbRecords, f)
          IN /\ f = "none" \/ r.hit
             /\ Spend(r.hit)
             /\ dbRecords' = r.db
             /\ records' = IF r.threw THEN records ELSE <<>>
    /\ userOps' = userOps + 1
    /\ imp' = ImpIdle
    /\ UNCHANGED <<dbCircles, circles, refreshPending, idCounter, now, imports,
                   backup, lastDone,
                   an, ses, fetched, auth, inflight>>

(***************************************************************************)
(* components/Settings.tsx.                                                *)
(***************************************************************************)
\* handleExport: fetch the circles and the records, write the backup file
handleExport ==
    /\ Quiet
    /\ backup.made < MaxExports
    /\ \E fc \in Faults({"select", "upsert", "delete"}), fr \in Faults({"select"}) :
          LET rc == fetchCircles(dbCircles, idCounter, fc)
              rr == fetchRecords(dbRecords, fr)
          IN /\ fr = "none" \/ fc = "none"
             /\ fc = "none" \/ rc.hit
             /\ fr = "none" \/ (rr.hit /\ ~rc.threw)
             /\ Spend(rc.hit \/ rr.hit)
             /\ dbCircles' = rc.db
             /\ idCounter' = rc.counter
             /\ backup' = IF rc.threw THEN backup
                          ELSE [made |-> backup.made + 1,
                                text |-> ExportText(rc.ret, rr.ret),
                                circles |-> rc.ret, records |-> rr.ret]
    /\ imp' = ImpIdle
    /\ UNCHANGED <<dbRecords, circles, records, refreshPending, now, userOps,
                   imports, lastDone,
                   an, ses, fetched, auth, inflight>>

\* The catch of handleImport, for each error a store call may throw
ImportFailed ==
    { [imp EXCEPT !.pc = "failed", !.error = error, !.alert = ImportAlert(error)] :
         error \in StoreErrors }

\* handleImport, from the file's text to the first await
ImportStart ==
    /\ Quiet
    /\ imports < MaxImports
    /\ \E content \in HandFiles \cup (IF backup.made > 0 THEN {backup.text} ELSE {}) :
          LET parsed == ParseBackup(content)
              started == [ImpIdle EXCEPT !.text = content,
                                         !.parsedCircles = parsed.circles,
                                         !.parsedRecords = parsed.records,
                                         !.circlesBefore = dbCircles,
                                         !.recordsBefore = dbRecords,
                                         !.idBefore = idCounter,
                                         !.again = /\ lastDone.made
                                                   /\ lastDone.text = content
                                                   /\ lastDone.circles = dbCircles
                                                   /\ lastDone.records = dbRecords]
          IN imp' = IF Len(parsed.circles) = 0 /\ Len(parsed.records) = 0
                    THEN [started EXCEPT !.pc = "failed", !.error = NoValidData,
                                         !.alert = ImportAlert(NoValidData)]
                    ELSE [started EXCEPT !.pc = "fetchCircles1"]
    /\ imports' = imports + 1
    /\ UNCHANGED <<dbCircles, dbRecords, circles, records, refreshPending, idCounter,
                   now, faultBudget, userOps, backup, lastDone,
                   an, ses, fetched, auth, inflight>>

\* await fetchCircles, then the circle merge
ImportFetchCircles1 ==
    /\ imp.pc = "fetchCircles1"
    /\ \E f \in Faults({"select", "upsert", "delete"}) :
          LET r == fetchCircles(dbCircles, idCounter, f)
              m == MergeCircles(imp.parsedCircles, r.ret, r.counter, 0)
          IN /\ f = "none" \/ r.hit
             /\ Spend(r.hit)
             /\ dbCircles' = r.db
             /\ IF r.threw
                THEN imp' \in ImportFailed /\ idCounter' = r.counter
                ELSE /\ idCounter' = m.counter
                     /\ imp' = [imp EXCEPT
                            !.pc = IF m.newCirclesCount > 0 THEN "syncCircles1"
                                   ELSE "fetchCircles2",
                            !.circlesToSync = m.circlesToSync,
                            !.newCirclesCount = m.newCirclesCount]
             /\ fetched' = Returned(r)
    /\ UNCHANGED <<dbRecords, circles, records, refreshPending, now, userOps,
                   imports, backup, lastDone,
                   an, ses, auth, inflight>>

\* await syncCircles(circlesToSync)
ImportSyncCircles ==
    /\ imp.pc = "syncCircles1"
    /\ \E f \in Faults({"upsert", "delete"}) :
          LET r == syncCircles(dbCircles, imp.circlesToSync, f)
          IN /\ f = "none" \/ r.hit
             /\ Spend(r.hit)
             /\ dbCircles' = r.db
             /\ imp' \in IF r.threw THEN ImportFailed
                         ELSE {[imp EXCEPT !.pc = "fetchCircles2"]}
    /\ UNCHANGED <<dbRecords, circles, records, refreshPending, idCounter, now,
                   userOps, imports, backup, lastDone,
                   an, ses, fetched, auth, inflight>>

\* const updatedCircles = await fetchCircles
ImportFetchCircles2 ==
    /\ imp.pc = "fetchCircles2"
    /\ \E f \in Faults({"select", "upsert", "delete"}) :
          LET r == fetchCircles(dbCircles, idCounter, f)
          IN /\ f = "none" \/ r.hit
             /\ Spend(r.hit)
             /\ dbCircles' = r.db
             /\ idCounter' = r.counter
             /\ imp' \in IF r.threw THEN ImportFailed
                         ELSE {[imp EXCEPT !.pc = "fetchRecords",
                                           !.updatedCircles = r.ret]}
             /\ fetched' = Returned(r)
    /\ UNCHANGED <<dbRecords, circles, records, refreshPending, now, userOps,
                   imports, backup, lastDone,
                   an, ses, auth, inflight>>

\* const currentRecords = await fetchRecords
ImportFetchRecords ==
    /\ imp.pc = "fetchRecords"
    /\ \E f \in Faults({"select"}) :
          LET r == fetchRecords(dbRecords, f)
          IN /\ f = "none" \/ r.hit
             /\ Spend(r.hit)
             /\ imp' = [imp EXCEPT !.pc = "loop", !.currentRecords = r.ret,
                                   !.newRecords = <<>>, !.i = 1]
    /\ UNCHANGED <<dbCircles, dbRecords, circles, records, refreshPending, idCounter,
                   now, userOps, imports, backup, lastDone,
                   an, ses, fetched, auth, inflight>>

\* The record a parsed record is staged as
StagedRecord(pr, newId, circleId) ==
    [id |-> newId, circleId |-> circleId, amount |-> pr.amount, date |-> pr.date,
     note |-> pr.note, timestamp |-> DateToTime(pr.date)]

\* One turn of the loop over the parsed records: skip a duplicate; resolve
\* the circle by name, creating and writing it when there is none; stage
\* the record
ImportRecord ==
    /\ imp.pc = "loop"
    /\ imp.i <= Len(imp.parsedRecords)
    /\ \E f \in Faults({"upsert", "delete"}) :
          LET pr == imp.parsedRecords[imp.i]
              matched == HasName(imp.updatedCircles, pr.circleName)
              targetCircleId == IF matched
                                THEN FindByName(imp.updatedCircles, pr.circleName).id
                                ELSE <<>>
              duplicate == \E k \in 1..Len(imp.currentRecords) :
                               IsDuplicate(imp.currentRecords[k], pr, targetCircleId)
              newCircle == [id |-> GenId(idCounter + 1), name |-> pr.circleName,
                            isDefault |-> FALSE]
              r == syncCircles(dbCircles, Append(imp.updatedCircles, newCircle), f)
              ids == IF matched THEN 1 ELSE 2
              newId == GenId(idCounter + ids)
              circleId == IF matched THEN targetCircleId ELSE newCircle.id
              next == [imp EXCEPT !.i = @ + 1,
                                  !.resolved = Append(@, IF duplicate THEN targetCircleId
                                                         ELSE circleId),
                                  !.skipped = Append(@, duplicate)]
          IN IF duplicate
             THEN /\ f = "none"
                  /\ imp' = next
                  /\ UNCHANGED <<dbCircles, idCounter, faultBudget>>
             ELSE IF matched
             THEN /\ f = "none"
                  /\ idCounter' = idCounter + 1
                  /\ imp' = IF HasId(imp.newRecords, newId) THEN next
                            ELSE [next EXCEPT !.newRecords =
                                     Append(@, StagedRecord(pr, newId, circleId))]
                  /\ UNCHANGED <<dbCircles, faultBudget>>
             ELSE /\ f = "none" \/ r.hit
                  /\ Spend(r.hit)
                  /\ dbCircles' = r.db
                  /\ IF r.threw
                     THEN imp' \in ImportFailed /\ idCounter' = idCounter + 1
                     ELSE /\ idCounter' = idCounter + 2
                          /\ imp' = [next EXCEPT
                                 !.updatedCircles = Append(@, newCircle),
                                 !.newCirclesCount = @ + 1,
                                 !.newRecords =
                                     IF HasId(imp.newRecords, newId) THEN @
                                     ELSE Append(@, StagedRecord(pr, newId, circleId))]
    /\ UNCHANGED <<dbRecords, circles, records, refreshPending, now, userOps,
                   imports, backup, lastDone,
                   an, ses, fetched, auth, inflight>>

\* After the loop: await addRecordsBatch(newRecords), ask the App for a
\* refresh, report the counts
ImportCommit ==
    /\ imp.pc = "loop"
    /\ imp.i > Len(imp.parsedRecords)
    /\ \E f \in Faults({"insert"}) :
          LET r == addRecordsBatch(dbRecords, imp.newRecords, f)
          IN /\ f = "none" \/ r.hit
             /\ Spend(r.hit)
             /\ dbRecords' = r.db
             /\ IF r.threw
                THEN /\ imp' \in ImportFailed
                     /\ UNCHANGED <<refreshPending, lastDone>>
                ELSE /\ imp' = [imp EXCEPT !.pc = "done", !.alert = "success"]
                     /\ refreshPending' = TRUE
                     /\ lastDone' = [made |-> TRUE, text |-> imp.text,
                                     circles |-> dbCircles, records |-> r.db]
    /\ UNCHANGED <<dbCircles, circles, records, idCounter, now, userOps, imports,
                   backup,
                   an, ses, fetched, auth, inflight>>

(***************************************************************************)
(* services/geminiService.ts: analyzeText.                                 *)
(***************************************************************************)
\* The key check, before the try block: the error is thrown as it is
analyzeTextCall ==
    /\ an.pc = "start"
    /\ an' = IF an.key THEN [an EXCEPT !.pc = "fetch"]
             ELSE [an EXCEPT !.pc = "threw", !.error = "key",
                             !.cause = ApiKeyIsMissing, !.message = ApiKeyIsMissing]
    /\ UNCHANGED appVars

\* The request, sent once: the service answers with the completion or with
\* an HTTP error, or the request fails
analyzeTextFetch ==
    /\ an.pc = "fetch"
    /\ \E response \in Responses :
          LET sent == [an EXCEPT !.requests = an.requests + 1, !.response = response]
          IN an' = CASE response.kind = "rejected" ->
                            [sent EXCEPT !.pc = "threw", !.error = "network",
                                         !.cause = FailedToFetch,
                                         !.message = Rethrow(FailedToFetch)]
                     [] response.kind = "answered" /\ ~ResponseOk(response) ->
                            [sent EXCEPT !.pc = "threw", !.error = "http",
                                         !.cause = HttpErrorMessage(response),
                                         !.message = Rethrow(HttpErrorMessage(response))]
                     [] OTHER -> [sent EXCEPT !.pc = "parse"]
    /\ UNCHANGED appVars

\* The clean-up and the parse of the completion text
analyzeTextParse ==
    /\ an.pc = "parse"
    /\ LET c == Canonicalize(ExtractJsonString(an.completion))
       IN an' = IF c.threw
                THEN [an EXCEPT !.pc = "threw", !.error = "parse",
                                !.cause = SyntaxErrorMessage,
                                !.message = Rethrow(SyntaxErrorMessage)]
                ELSE [an EXCEPT !.pc = "map", !.data = c.data]
    /\ UNCHANGED appVars

\* The map and the filter; the list is returned
analyzeTextReturn ==
    /\ an.pc = "map"
    /\ LET r == MapAndFilter(an.data, an.text, Today)
       IN an' = IF r.threw
                THEN [an EXCEPT !.pc = "threw", !.error = "map",
                                !.cause = TypeErrorMessage,
                                !.message = Rethrow(TypeErrorMessage)]
                ELSE [an EXCEPT !.pc = "returned", !.mapped = r.mapped,
                                !.result = r.result]
    /\ UNCHANGED appVars

(***************************************************************************)
(* components/AddRecord.tsx: the import modal on a native platform.  An    *)
(* analyzeText call is in flight from the moment handleAnalyze or          *)
(* handleReAnalyze makes it until the service's answer settles it.         *)
(***************************************************************************)
\* The variables AddRecord does not touch but through onSave
sesFrame == <<dbCircles, circles, refreshPending, now, faultBudget, userOps, imports,
              backup, imp, lastDone, an, fetched, auth, inflight>>

\* The variables a save from AddRecord does not touch
saveFrame == <<dbCircles, circles, refreshPending, now, userOps, imports,
               backup, imp, lastDone, an, fetched, auth, inflight>>

\* AddRecord opens from the dashboard, with the user's circles loaded
InitSession ==
    /\ dbCircles = SessionCircles
    /\ dbRecords = SessionRecords
    /\ circles = SessionCircles
    /\ records = SessionRecords
    /\ refreshPending = FALSE
    /\ idCounter = Len(SessionCircles) + Len(SessionRecords)
    /\ now = DateToTime(Today)
    /\ backup = NoBackup
    /\ imp = ImpIdle
    /\ lastDone = NoImport
    /\ fetched = [made |-> TRUE, circles |-> SessionCircles]
    /\ auth = AuthIdle
    /\ inflight = <<>>
    /\ faultBudget = MaxFaults
    /\ userOps = 0 /\ imports = 0 /\ an = AnIdle
    /\ \/ \E selectedCircleId \in SelectedCircleIds :
             ses = [SesIdle EXCEPT
                       !.mounted = TRUE,
                       !.circleId = IF selectedCircleId = <<"all">>
                                    THEN SessionCircles[1].id ELSE selectedCircleId]
       \/ \E k \in 1..Len(SessionRecords) :
             ses = [SesIdle EXCEPT
                       !.mounted = TRUE,
                       !.initial = SessionRecords[k],
                       !.form = EditForm(SessionRecords[k]),
                       !.circleId = SessionRecords[k].circleId]

\* The effect that runs when the modal opens
ResetModal(s) ==
    [s EXCEPT !.importText = <<>>, !.tempTranscript = <<>>, !.parsedResults = <<>>,
              !.lastImportText = <<>>, !.feedback = ""]

\* toggleListening: start the recognizer (it starts or it fails), or stop
\* it, keep what was heard and set the timer of the automatic analysis
toggleListening(s, starts) ==
    IF ~s.isListening
    THEN [s EXCEPT !.feedback = "", !.importText = <<>>, !.tempTranscript = <<>>,
                   !.isListening = starts]
    ELSE LET finalText ==
                 IF s.tempTranscript # <<>>
                 THEN s.importText \o (IF s.importText # <<>> THEN <<" ">> ELSE <<>>)
                          \o s.tempTranscript
                 ELSE s.importText
         IN [s EXCEPT !.importText = finalText, !.tempTranscript = <<>>,
                      !.isListening = FALSE, !.timers = Append(s.timers, finalText)]

\* handleAnalyze up to the call of analyzeText
handleAnalyze(s, textToAnalyze) ==
    IF Trim(textToAnalyze) = <<>> THEN s
    ELSE LET called ==
                 [s EXCEPT !.calls = Append(s.calls, [kind |-> "analyze",
                                                      text |-> textToAnalyze,
                                                      closed |-> FALSE]),
                           !.started = s.started + 1]
         IN IF ~s.mounted THEN called
            ELSE [called EXCEPT !.isAnalyzing = TRUE, !.parsedResults = <<>>,
                                !.lastImportText = textToAnalyze, !.feedback = ""]

\* handleReAnalyze up to the call of analyzeText
handleReAnalyze(s) ==
    IF Trim(s.lastImportText) = <<>> THEN s
    ELSE [s EXCEPT !.isAnalyzing = TRUE,
                   !.calls = Append(s.calls, [kind |-> "reanalyze", text |-> s.lastImportText,
                                              closed |-> FALSE]),
                   !.started = s.started + 1]

\* The circle a result goes to: the circle of its name, or the circle the
\* form has selected
TargetCircleId(res, cs, circleId) ==
    IF res.circleName # <<>> /\ HasName(cs, res.circleName)
    THEN FindByName(cs, res.circleName).id
    ELSE circleId

\* handleAnalyze from the answer of analyzeText on
AfterAnalyze(s, outcome) ==
    LET results == outcome.results
        res == results[1]
    IN CASE outcome.threw -> [s EXCEPT !.feedback = "error", !.isAnalyzing = FALSE]
         [] ~outcome.threw /\ Len(results) = 0 ->
                [s EXCEPT !.feedback = "error", !.isAnalyzing = FALSE]
         [] ~outcome.threw /\ Len(results) = 1 ->
                [s EXCEPT !.form = [amount |-> NumberToString(Abs(res.amount)),
                                    isWin |-> res.isWin, date |-> res.date,
                                    note |-> res.note],
                          !.circleId = TargetCircleId(res, circles, s.circleId),
                          !.autofilled = <<[res |-> res, circleIdBefore |-> s.circleId]>>,
                          !.importText = <<>>, !.parsedResults = <<>>,
                          !.showImportModal = FALSE, !.isAnalyzing = FALSE]
         [] OTHER -> [s EXCEPT !.parsedResults = results, !.importText = <<>>,
                               !.isAnalyzing = FALSE]

\* handleReAnalyze from the answer of analyzeText on
AfterReAnalyze(s, outcome) ==
    CASE outcome.threw -> [s EXCEPT !.feedback = "error", !.isAnalyzing = FALSE]
      [] ~outcome.threw /\ Len(outcome.results) = 0 ->
             [s EXCEPT !.feedback = "error", !.isAnalyzing = FALSE]
      [] OTHER -> [s EXCEPT !.parsedResults = outcome.results, !.feedback = "info",
                            !.isAnalyzing = FALSE]

\* The sequence without its i-th element
RemoveAt(q, i) == SubSeq(q, 1, i - 1) \o SubSeq(q, i + 1, Len(q))

Reverse(q) == [i \in 1..Len(q) |-> q[Len(q) + 1 - i]]

\* The header button of the batch import
openBatch ==
    /\ ses.mounted /\ ~ses.showImportModal
    /\ ses' = ResetModal([ses EXCEPT !.importMode = "batch", !.showImportModal = TRUE])
    /\ UNCHANGED <<dbRecords, records, idCounter>>
    /\ UNCHANGED sesFrame

\* The microphone button of the form
openVoice ==
    /\ ses.mounted /\ ~ses.showImportModal
    /\ Len(ses.timers) < MaxTimers
    /\ \E starts \in BOOLEAN :
          ses' = ResetModal([toggleListening(ses, starts) EXCEPT
                                !.importMode = "voice", !.showImportModal = TRUE])
    /\ UNCHANGED <<dbRecords, records, idCounter>>
    /\ UNCHANGED sesFrame

\* The text area of the batch import
typeText ==
    /\ ses.mounted /\ ses.showImportModal
    /\ ses.importMode = "batch" /\ ses.parsedResults = <<>>
    /\ \E text \in TypedTexts :
          ses' = [ses EXCEPT !.importText = text, !.feedback = ""]
    /\ UNCHANGED <<dbRecords, records, idCounter>>
    /\ UNCHANGED sesFrame

\* The listener of the recognizer's partial results
partialResults ==
    /\ ses.mounted /\ ses.isListening
    /\ ses' = [ses EXCEPT !.tempTranscript = Utterance]
    /\ UNCHANGED <<dbRecords, records, idCounter>>
    /\ UNCHANGED sesFrame

\* The microphone button of the modal
clickToggleListening ==
    /\ ses.mounted /\ ses.showImportModal
    /\ ses.importMode = "voice" /\ ses.parsedResults = <<>>
    /\ Len(ses.timers) < MaxTimers
    /\ \E starts \in BOOLEAN : ses' = toggleListening(ses, starts)
    /\ UNCHANGED <<dbRecords, records, idCounter>>
    /\ UNCHANGED sesFrame

\* The timer of the silence detection stops the recognizer
silenceTimeout ==
    /\ ses.mounted /\ ses.isListening
    /\ ses.importText # <<>> \/ ses.tempTranscript # <<>>
    /\ Len(ses.timers) < MaxTimers
    /\ ses' = toggleListening(ses, FALSE)
    /\ UNCHANGED <<dbRecords, records, idCounter>>
    /\ UNCHANGED sesFrame

\* The timer toggleListening set runs handleAnalyze on what was heard
autoAnalyze ==
    /\ ses.timers # <<>>
    /\ ses.started < MaxCalls
    /\ LET finalText == Head(ses.timers)
           s == [ses EXCEPT !.timers = Tail(ses.timers)]
       IN ses' = handleAnalyze(s, finalText)
    /\ UNCHANGED <<dbRecords, records, idCounter>>
    /\ UNCHANGED sesFrame

\* The button of the modal's foot while there are no results
clickAnalyze ==
    /\ ses.mounted /\ ses.showImportModal
    /\ ~ses.isAnalyzing /\ ses.parsedResults = <<>>
    /\ ses.started < MaxCalls
    /\ ses' = handleAnalyze(ses, ses.importText)
    /\ UNCHANGED <<dbRecords, records, idCounter>>
    /\ UNCHANGED sesFrame

\* The button of the modal's head
clickReAnalyze ==
    /\ ses.mounted /\ ses.showImportModal
    /\ ~ses.isAnalyzing
    /\ ses.started < MaxCalls
    /\ ses' = handleReAnalyze(ses)
    /\ UNCHANGED <<dbRecords, records, idCounter>>
    /\ UNCHANGED sesFrame

\* analyzeText settles: the handler that made the call goes on (to no
\* effect when AddRecord is gone)
analyzeTextSettles ==
    /\ \E i \in 1..Len(ses.calls), outcome \in Outcomes :
          LET s == [ses EXCEPT !.calls = RemoveAt(ses.calls, i)]
          IN ses' = IF ~ses.mounted THEN s
                    ELSE IF ses.calls[i].kind = "analyze" THEN AfterAnalyze(s, outcome)
                    ELSE AfterReAnalyze(s, outcome)
    /\ UNCHANGED <<dbRecords, records, idCounter>>
    /\ UNCHANGED sesFrame

\* The reset button
resetResults ==
    /\ ses.mounted /\ ses.showImportModal
    /\ ses.parsedResults # <<>>
    /\ ses' = [ses EXCEPT !.parsedResults = <<>>, !.importText = <<>>]
    /\ UNCHANGED <<dbRecords, records, idCounter>>
    /\ UNCHANGED sesFrame

\* handleUserCloseModal; each call in flight is marked as one the modal
\* was closed on (the mark is read by no handler)
handleCloseModal ==
    /\ ses.mounted /\ ses.showImportModal
    /\ ses' = [ses EXCEPT !.isListening = FALSE, !.showImportModal = FALSE,
                          !.calls = [i \in 1..Len(ses.calls) |->
                                        [ses.calls[i] EXCEPT !.closed = TRUE]]]
    /\ UNCHANGED <<dbRecords, records, idCounter>>
    /\ UNCHANGED sesFrame

\* A record with the amount as extracted (C27 tells it from the source's)
C27_BatchRecordKeepsAmount(res, k, cs, circleId) ==
    [id |-> GenId(idCounter + k),
     circleId |-> TargetCircleId(res, cs, circleId),
     amount |-> res.amount,
     date |-> res.date, note |-> res.note, timestamp |-> DateToTime(res.date)]

\* The record handleBatchImport makes of the k-th result
BatchRecord(res, k, cs, circleId) ==
    [id |-> GenId(idCounter + k),
     circleId |-> TargetCircleId(res, cs, circleId),
     amount |-> IF res.isWin THEN Abs(res.amount) ELSE -Abs(res.amount),
     date |-> res.date, note |-> res.note, timestamp |-> DateToTime(res.date)]

\* handleBatchImport, then App.handleSaveRecord, which leaves AddRecord
handleBatchImport ==
    /\ ses.mounted /\ ses.showImportModal
    /\ ~ses.isAnalyzing /\ ses.parsedResults # <<>>
    /\ \E f \in Faults({"insert"}) :
          LET recordsToSave ==
                  [k \in 1..Len(ses.parsedResults) |->
                      BatchRecord(ses.parsedResults[k], k, circles, ses.circleId)]
              updatedRecords == SortDesc(Reverse(recordsToSave) \o records)
              r == addRecordsBatch(dbRecords, recordsToSave, f)
          IN /\ f = "none" \/ r.hit
             /\ Spend(r.hit)
             /\ dbRecords' = r.db
             /\ records' = IF r.threw THEN records ELSE updatedRecords
             /\ idCounter' = idCounter + Len(recordsToSave)
             /\ ses' = [ses EXCEPT !.saved = recordsToSave, !.showImportModal = FALSE,
                                   !.isListening = FALSE, !.mounted = FALSE]
    /\ UNCHANGED saveFrame

\* The amount, win/loss, date and note inputs of the form
fillForm ==
    /\ ses.mounted /\ ~ses.showImportModal
    /\ \E form \in SubmitForms : ses' = [ses EXCEPT !.form = form]
    /\ UNCHANGED <<dbRecords, records, idCounter>>
    /\ UNCHANGED sesFrame

\* The records in memory with the record put in: in the place of the one
\* of its id, or in front
PutRecord(rs, record) ==
    IF HasId(rs, record.id)
    THEN [i \in 1..Len(rs) |-> IF rs[i].id = record.id THEN record ELSE rs[i]]
    ELSE <<record>> \o rs

\* AddRecord.handleSubmit with the form of the session, then
\* App.handleSaveRecord, which leaves AddRecord
submitForm ==
    /\ ses.mounted /\ ~ses.showImportModal
    /\ \E f \in Faults({"insert", "update"}) :
          LET form == ses.form
              editing == ses.initial # NoInitialRecord
              numAmount == ParseFloat(form.amount)
              finalAmount == IF form.isWin THEN Abs(numAmount) ELSE -Abs(numAmount)
              recordToSave ==
                  [id |-> IF editing THEN ses.initial.id ELSE GenId(idCounter + 1),
                   circleId |-> ses.circleId, amount |-> finalAmount,
                   date |-> form.date, note |-> form.note,
                   timestamp |-> IF editing THEN ses.initial.timestamp ELSE now]
              isUpdate == HasId(records, recordToSave.id)
              updatedRecords == SortDesc(PutRecord(records, recordToSave))
              r == IF isUpdate THEN updateRecord(dbRecords, recordToSave, f)
                   ELSE addRecordsBatch(dbRecords, <<recordToSave>>, f)
          IN IF form.amount = <<>> \/ ParseFloatIsNaN(form.amount)
             THEN /\ f = "none"
                  /\ UNCHANGED <<dbRecords, records, idCounter, faultBudget, ses>>
             ELSE /\ f = "none" \/ r.hit
                  /\ Spend(r.hit)
                  /\ dbRecords' = r.db
                  /\ records' = IF r.threw THEN records ELSE updatedRecords
                  /\ idCounter' = IF editing THEN idCounter ELSE idCounter + 1
                  /\ ses' = [ses EXCEPT
                                !.submitted = <<[form |-> form, circleId |-> ses.circleId,
                                                 record |-> recordToSave,
                                                 threw |-> r.threw]>>,
                                !.mounted = FALSE]
    /\ UNCHANGED saveFrame

NextSession ==
    \/ openBatch
    \/ openVoice
    \/ typeText
    \/ partialResults
    \/ clickToggleListening
    \/ silenceTimeout
    \/ autoAnalyze
    \/ clickAnalyze
    \/ clickReAnalyze
    \/ analyzeTextSettles
    \/ resetResults
    \/ handleCloseModal
    \/ handleBatchImport
    \/ fillForm
    \/ submitForm

(***************************************************************************)
(* services/authService.ts: getCurrentUser, and the start-up of App.  A    *)
(* getCurrentUser call is in flight from the moment it is made until the   *)
(* session lookup answers or its 5 s timer fires, whichever is first.      *)
(***************************************************************************)
\* How the race of getCurrentUser may end: the lookup resolves with a
\* session that has a user, with an error, with no session; it rejects;
\* the timer fires first
SessionAnswers == {"user", "error", "nosession", "rejected"}

\* A getCurrentUser with no catch (C20 tells it from the source's)
C20_GetCurrentUserWithoutCatch(how) ==
    CASE how = "user" -> [made |-> TRUE, rejected |-> FALSE, user |-> "u1", how |-> how]
      [] how \in {"error", "nosession"} ->
             [made |-> TRUE, rejected |-> FALSE, user |-> "null", how |-> how]
      [] OTHER -> [made |-> TRUE, rejected |-> TRUE, user |-> "null", how |-> how]

\* getCurrentUser: what the promise settles to
getCurrentUser(how) ==
    LET raceRejects == how \in {"rejected", "timeout"}
    IN IF raceRejects
       THEN [made |-> TRUE, rejected |-> FALSE, user |-> "null", how |-> how]
       ELSE IF how \in {"error", "nosession"}
       THEN [made |-> TRUE, rejected |-> FALSE, user |-> "null", how |-> how]
       ELSE [made |-> TRUE, rejected |-> FALSE, user |-> "u1", how |-> how]

\* The caller of getCurrentUser goes on: initAuth, the listener of the
\* network status, the listener of SIGNED_IN
AfterGetCurrentUser(a, by, res) ==
    CASE by = "initAuth" ->
             IF ~res.rejected /\ res.user # "null"
             THEN [a EXCEPT !.user = res.user, !.view = "DASHBOARD",
                            !.isInitializing = FALSE]
             ELSE [a EXCEPT !.isInitializing = FALSE]
      [] by = "network" ->
             IF ~res.rejected /\ res.user # "null"
             THEN [a EXCEPT !.user = res.user, !.view = "DASHBOARD"]
             ELSE a
      [] OTHER ->
             IF ~res.rejected
             THEN [a EXCEPT !.user = res.user,
                            !.view = IF a.view = "LOGIN" THEN "DASHBOARD" ELSE a.view]
             ELSE a

\* The call settles in the way how, and its caller goes on
Settle(i, how) ==
    LET res == getCurrentUser(how)
        a == [auth EXCEPT !.calls = SubSeq(auth.calls, 1, i - 1)
                                        \o SubSeq(auth.calls, i + 1, Len(auth.calls)),
                          !.settled = res]
    IN auth' = AfterGetCurrentUser(a, auth.calls[i].by, res)

\* The variables the start-up does not touch
authFrame == <<dbCircles, dbRecords, circles, records, refreshPending, idCounter, now,
               faultBudget, userOps, imports, backup, imp, lastDone, an, ses, fetched,
               inflight>>

\* App has mounted: initAuth has called getCurrentUser and the 3 s timer is
\* set
InitAuth ==
    /\ dbCircles = <<>>
    /\ dbRecords = <<>>
    /\ circles = <<>>
    /\ records = <<>>
    /\ refreshPending = FALSE
    /\ idCounter = 0
    /\ now = DateToTime(Today)
    /\ backup = NoBackup
    /\ imp = ImpIdle
    /\ lastDone = NoImport
    /\ fetched = [made |-> FALSE, circles |-> <<>>]
    /\ faultBudget = 0 /\ userOps = 0 /\ imports = 0 /\ an = AnIdle
    /\ ses = SesIdle
    /\ auth = [isInitializing |-> TRUE, user |-> "null", view |-> "LOGIN",
               failsafe |-> TRUE, calls |-> <<[by |-> "initAuth"]>>, started |-> 1,
               settled |-> NoSettled]
    /\ inflight = <<>>

\* supabase.auth.getSession answers a call
sessionAnswers ==
    /\ \E i \in 1..Len(auth.calls), how \in SessionAnswers : Settle(i, how)
    /\ UNCHANGED authFrame

\* The 5 s timer of a call fires before the lookup answers
sessionTimeout ==
    /\ \E i \in 1..Len(auth.calls) : Settle(i, "timeout")
    /\ UNCHANGED authFrame

\* The 3 s timer of the start-up fires
failsafeFires ==
    /\ auth.failsafe
    /\ auth' = [auth EXCEPT !.failsafe = FALSE, !.isInitializing = FALSE]
    /\ UNCHANGED authFrame

\* The network comes back: the listener, whose user is the null of the
\* first render, calls getCurrentUser
networkStatusChange ==
    /\ auth.started < MaxAuthCalls
    /\ auth' = [auth EXCEPT !.calls = Append(auth.calls, [by |-> "network"]),
                            !.started = auth.started + 1]
    /\ UNCHANGED authFrame

\* onAuthStateChange: SIGNED_IN with a session that has a user
signedIn ==
    /\ auth.started < MaxAuthCalls
    /\ auth' = [auth EXCEPT !.calls = Append(auth.calls, [by |-> "signedIn"]),
                            !.started = auth.started + 1]
    /\ UNCHANGED authFrame

\* onAuthStateChange: SIGNED_OUT
signedOut ==
    /\ auth.user # "null" \/ auth.view # "LOGIN"
    /\ auth' = [auth EXCEPT !.user = "null", !.view = "LOGIN"]
    /\ UNCHANGED authFrame

NextAuth ==
    \/ sessionAnswers
    \/ sessionTimeout
    \/ failsafeFires
    \/ networkStatusChange
    \/ signedIn
    \/ signedOut

(***************************************************************************)
(* services/storageService.ts: fetchCircles calls that overlap.  Each call *)
(* is a select, and for a store with no circle of the user a syncCircles   *)
(* of new default circles: an upsert and then a delete, each one store     *)
(* operation.                                                              *)
(***************************************************************************)
\* The variables the overlapping calls do not touch
concFrame == <<refreshPending, now, faultBudget, userOps, imports, backup, imp, lastDone,
               an, ses, fetched>>

\* The callers of fetchCircles
Callers == {"refreshData", "handleImport"}

\* The user has just signed up: the store has no circle and no record
InitFirstAccess ==
    /\ dbCircles = <<>>
    /\ dbRecords = <<>>
    /\ circles = <<>>
    /\ records = <<>>
    /\ refreshPending = FALSE
    /\ idCounter = 0
    /\ now = DateToTime(Today)
    /\ backup = NoBackup
    /\ imp = ImpIdle
    /\ lastDone = NoImport
    /\ fetched = [made |-> FALSE, circles |-> <<>>]
    /\ auth = AuthIdle
    /\ faultBudget = 0 /\ userOps = 0 /\ imports = 0 /\ an = AnIdle
    /\ ses = SesIdle
    /\ inflight = <<>>

\* fetchCircles returns ret to its caller: refreshData puts the list in
\* the state of App
ReturnCircles(i, ret) ==
    /\ inflight' = [inflight EXCEPT ![i].pc = "returned", ![i].ret = ret]
    /\ circles' = IF inflight[i].caller = "refreshData"
                  THEN (IF Len(ret) > 0 THEN ret ELSE DEFAULT_CIRCLES)
                  ELSE circles

\* refreshData or handleImport calls fetchCircles
callFetchCircles ==
    /\ Len(inflight) < MaxFetches
    /\ \E caller \in Callers :
          inflight' = Append(inflight, [op |-> "fetchCircles", caller |-> caller,
                                        pc |-> "select", fresh |-> <<>>, ret |-> <<>>])
    /\ UNCHANGED <<dbCircles, dbRecords, circles, records, idCounter, auth>>
    /\ UNCHANGED concFrame

\* The select of fetchCircles: rows, which it returns, or none, and it
\* makes the default circles with new ids
fetchCirclesSelect ==
    /\ \E i \in 1..Len(inflight) :
          /\ inflight[i].pc = "select"
          /\ IF dbCircles = <<>>
             THEN /\ inflight' = [inflight EXCEPT
                                     ![i].pc = "upsert",
                                     ![i].fresh = NewDefaultCircles(idCounter)]
                  /\ idCounter' = idCounter + Len(DEFAULT_CIRCLES)
                  /\ UNCHANGED circles
             ELSE /\ ReturnCircles(i, dbCircles)
                  /\ UNCHANGED idCounter
    /\ UNCHANGED <<dbCircles, dbRecords, records, auth>>
    /\ UNCHANGED concFrame

\* The upsert of syncCircles
fetchCirclesUpsert ==
    /\ \E i \in 1..Len(inflight) :
          /\ inflight[i].pc = "upsert"
          /\ dbCircles' = UpsertCircles(dbCircles, inflight[i].fresh)
          /\ inflight' = [inflight EXCEPT ![i].pc = "delete"]
    /\ UNCHANGED <<dbRecords, circles, records, idCounter, auth>>
    /\ UNCHANGED concFrame

\* The delete of syncCircles, of the rows that are not in the list; and
\* fetchCircles returns the list
fetchCirclesDelete ==
    /\ \E i \in 1..Len(inflight) :
          /\ inflight[i].pc = "delete"
          /\ dbCircles' = FilterSeq(dbCircles,
                              [k \in 1..Len(dbCircles) |->
                                  HasId(inflight[i].fresh, dbCircles[k].id)])
          /\ ReturnCircles(i, inflight[i].fresh)
    /\ UNCHANGED <<dbRecords, records, idCounter, auth>>
    /\ UNCHANGED concFrame

NextFirstAccess ==
    \/ callFetchCircles
    \/ fetchCirclesSelect
    \/ fetchCirclesUpsert
    \/ fetchCirclesDelete

(***************************************************************************)
(* App: sign-in, sign-out and the refreshData calls they start.  Each      *)
(* account has its own rows in the store.                                  *)
(***************************************************************************)
Users == {"u1", "u2"}

\* The rows of the user in table circles
UserCircles(u) ==
    << [id |-> <<"c", u>>, name |-> DEFAULT_CIRCLES[1].name, isDefault |-> TRUE] >>

\* The rows of the user in table records
UserRecords(u) ==
    << [id |-> <<"r", u>>, circleId |-> <<"c", u>>, amount |-> 8000, date |-> Date1,
        note |-> <<u>>, timestamp |-> DateToTime(Date1)] >>

\* App shows the login screen: no user, no data
InitAccounts ==
    /\ dbCircles = <<>>
    /\ dbRecords = <<>>
    /\ circles = <<>>
    /\ records = <<>>
    /\ refreshPending = FALSE
    /\ idCounter = 0
    /\ now = DateToTime(Today)
    /\ backup = NoBackup
    /\ imp = ImpIdle
    /\ lastDone = NoImport
    /\ fetched = [made |-> FALSE, circles |-> <<>>]
    /\ auth = [AuthIdle EXCEPT !.user = "null", !.view = "LOGIN"]
    /\ faultBudget = 0 /\ userOps = 0 /\ imports = 0 /\ an = AnIdle
    /\ ses = SesIdle
    /\ inflight = <<>>

\* handleLoginSuccess, and the effect on user.id, which calls refreshData:
\* the call is in flight for the user it was made for
handleLoginSuccess ==
    /\ auth.user = "null"
    /\ Len(inflight) < MaxLoads
    /\ \E u \in Users :
          /\ auth' = [auth EXCEPT !.user = u, !.view = "DASHBOARD"]
          /\ inflight' = Append(inflight, [op |-> "refreshData", user |-> u,
                                           pc |-> "fetching"])
    /\ UNCHANGED <<dbCircles, dbRecords, circles, records, idCounter>>
    /\ UNCHANGED concFrame

\* onAuthStateChange: SIGNED_OUT (handleLogout leads to it)
handleSignedOut ==
    /\ auth.user # "null"
    /\ auth' = [auth EXCEPT !.user = "null", !.view = "LOGIN"]
    /\ records' = <<>>
    /\ circles' = <<>>
    /\ UNCHANGED <<dbCircles, dbRecords, idCounter, inflight>>
    /\ UNCHANGED concFrame

\* The fetches of a refreshData call answer, and it sets the state of App
refreshDataLoaded ==
    /\ \E i \in 1..Len(inflight) :
          /\ inflight[i].pc = "fetching"
          /\ LET loadedRecords == fetchRecords(UserRecords(inflight[i].user), "none").ret
                 loadedCircles == UserCircles(inflight[i].user)
             IN /\ records' = loadedRecords
                /\ circles' = IF Len(loadedCircles) > 0 THEN loadedCircles
                              ELSE DEFAULT_CIRCLES
          /\ inflight' = [inflight EXCEPT ![i].pc = "returned"]
    /\ UNCHANGED <<dbCircles, dbRecords, idCounter, auth>>
    /\ UNCHANGED concFrame

NextAccounts ==
    \/ handleLoginSuccess
    \/ handleSignedOut
    \/ refreshDataLoaded

(***************************************************************************)
(* App: handleSaveRecord and handleDeleteRecord calls that overlap.  Each  *)
(* changes the records of App at once, keeps the records it found, and     *)
(* puts them back when the store call fails.                               *)
(***************************************************************************)
\* The dashboard, with the user's circles and records loaded
InitRollback ==
    /\ dbCircles = SessionCircles
    /\ dbRecords = SessionRecords
    /\ circles = SessionCircles
    /\ records = SessionRecords
    /\ refreshPending = FALSE
    /\ idCounter = Len(SessionCircles) + Len(SessionRecords)
    /\ now = DateToTime(Today)
    /\ backup = NoBackup
    /\ imp = ImpIdle
    /\ lastDone = NoImport
    /\ fetched = [made |-> TRUE, circles |-> SessionCircles]
    /\ auth = AuthIdle
    /\ faultBudget = 0 /\ userOps = 0 /\ imports = 0 /\ an = AnIdle
    /\ ses = SesIdle
    /\ inflight = <<>>

\* The record AddRecord hands over: a new one, or one of App's records
\* with another amount
RecordsToSave ==
    { [id |-> GenId(idCounter + 1), circleId |-> SessionCircles[1].id, amount |-> 8000,
       date |-> Today, note |-> <<>>, timestamp |-> now] }
        \cup { [records[k] EXCEPT !.amount = -8000] : k \in 1..Len(records) }

\* handleSaveRecord up to the store call
handleSaveRecordStart ==
    /\ Len(inflight) < MaxOps
    /\ \E record \in RecordsToSave :
          /\ records' = SortDesc(PutRecord(records, record))
          /\ idCounter' = IF HasId(records, record.id) THEN idCounter ELSE idCounter + 1
          /\ inflight' = Append(inflight,
                 [op |-> "handleSaveRecord", pc |-> "persist", record |-> record,
                  id |-> record.id, originalRecords |-> records, ok |-> TRUE])
    /\ UNCHANGED <<dbCircles, dbRecords, circles, auth>>
    /\ UNCHANGED concFrame

\* The store call of handleSaveRecord answers: done, or an error and the
\* catch puts the records back
handleSaveRecordSettles ==
    /\ \E i \in 1..Len(inflight), f \in {"none", "insert", "update"} :
          LET call == inflight[i]
              isUpdate == HasId(call.originalRecords, call.id)
              r == IF isUpdate THEN updateRecord(dbRecords, call.record, f)
                   ELSE addRecordsBatch(dbRecords, <<call.record>>, f)
          IN /\ call.op = "handleSaveRecord" /\ call.pc = "persist"
             /\ f = "none" \/ r.hit
             /\ dbRecords' = r.db
             /\ records' = IF r.threw THEN call.originalRecords ELSE records
             /\ inflight' = [inflight EXCEPT ![i].pc = "returned", ![i].ok = ~r.threw]
    /\ UNCHANGED <<dbCircles, circles, idCounter, auth>>
    /\ UNCHANGED concFrame

\* handleDeleteRecord up to the store call
handleDeleteRecordStart ==
    /\ Len(inflight) < MaxOps
    /\ \E k \in 1..Len(records) :
          /\ records' = FilterSeq(records,
                            [j \in 1..Len(records) |-> records[j].id # records[k].id])
          /\ inflight' = Append(inflight,
                 [op |-> "handleDeleteRecord", pc |-> "persist", record |-> records[k],
                  id |-> records[k].id, originalRecords |-> records, ok |-> TRUE])
    /\ UNCHANGED <<dbCircles, dbRecords, circles, idCounter, auth>>
    /\ UNCHANGED concFrame

\* The store call of handleDeleteRecord answers: done, or an error and the
\* catch puts the records back
handleDeleteRecordSettles ==
    /\ \E i \in 1..Len(inflight), ok \in BOOLEAN :
          LET call == inflight[i]
          IN /\ call.op = "handleDeleteRecord" /\ call.pc = "persist"
             /\ dbRecords' = IF ok
                             THEN FilterSeq(dbRecords,
                                      [j \in 1..Len(dbRecords) |->
                                          dbRecords[j].id # call.id])
                             ELSE dbRecords
             /\ records' = IF ok THEN records ELSE call.originalRecords
             /\ inflight' = [inflight EXCEPT ![i].pc = "returned", ![i].ok = ok]
    /\ UNCHANGED <<dbCircles, circles, idCounter, auth>>
    /\ UNCHANGED concFrame

NextRollback ==
    \/ handleSaveRecordStart
    \/ handleSaveRecordSettles
    \/ handleDeleteRecordStart
    \/ handleDeleteRecordSettles

NextAnalyze ==
    \/ analyzeTextCall
    \/ analyzeTextFetch
    \/ analyzeTextParse
    \/ analyzeTextReturn

Next ==
    \/ refreshData
    \/ handleSubmit
    \/ handleAdd
    \/ handleSaveEdit
    \/ handleDelete
    \/ handleClearData
    \/ handleExport
    \/ ImportStart
    \/ ImportFetchCircles1
    \/ ImportSyncCircles
    \/ ImportFetchCircles2
    \/ ImportFetchRecords
    \/ ImportRecord
    \/ ImportCommit

\* The store answers every call
Spec == Init /\ [][Next]_vars

\* Up to MaxFaults store calls fail
SpecFaults == InitFaults /\ [][Next]_vars

\* analyzeText on every text, payload and wrapping of the bounded sets
SpecAnalyze == InitAnalyze /\ [][NextAnalyze]_vars

\* The start-up of App, in which every timer that is set fires; nothing
\* makes the session lookup answer
SpecAuth ==
    InitAuth /\ [][NextAuth]_vars /\ WF_vars(sessionTimeout) /\ WF_vars(failsafeFires)

\* The first fetchCircles calls for a user, overlapping
SpecFirstAccess == InitFirstAccess /\ [][NextFirstAccess]_vars

\* Users sign in and out of one App
SpecAccounts == InitAccounts /\ [][NextAccounts]_vars

\* Saves and deletes of records that overlap
SpecRollback == InitRollback /\ [][NextRollback]_vars

\* One AddRecord session
SpecSession == InitSession /\ [][NextSession]_vars

\* One AddRecord session in which every timer that is set fires; nothing
\* makes the completion service answer
SpecSessionFair ==
    InitSession /\ [][NextSession]_vars /\ WF_vars(autoAnalyze) /\ WF_vars(silenceTimeout)

(***************************************************************************)
(* Properties of the import and the export.                                *)
(***************************************************************************)
\* How many circles of the list have the name
Count(cs, name) == Cardinality({i \in 1..Len(cs) : cs[i].name = name})

\* The name of the circle with the id, as the export looks it up
CircleNameIn(cs, id) ==
    IF HasId(cs, id) THEN (CHOOSE c \in Range(cs) : c.id = id).name
    ELSE UnknownCircleName

\* The import has run its loop over the first j parsed records
Looped == imp.pc \in {"loop", "done"}

StoreHas(pr, circleId) ==
    \E r \in Range(dbRecords) :
        /\ r.date = pr.date
        /\ r.amount = pr.amount
        /\ r.note = pr.note
        /\ r.circleId = circleId

\* The parsed records of the loop so far that were not skipped, each with
\* the circle id it resolved to
RECURSIVE Kept(_)
Kept(j) ==
    IF j = 0 THEN <<>>
    ELSE Kept(j - 1) \o
         (IF imp.skipped[j] THEN <<>>
          ELSE << [circleId |-> imp.resolved[j], amount |-> imp.parsedRecords[j].amount,
                   date |-> imp.parsedRecords[j].date,
                   note |-> imp.parsedRecords[j].note] >>)

C4_ExportImportKeepsRecords ==
    (imp.pc = "done" /\ backup.made > 0 /\ imp.text = backup.text) =>
        \A r \in Range(backup.records) :
            ~HasId(imp.recordsBefore, r.id) =>
            \E r2 \in Range(dbRecords) :
                /\ r2.amount = r.amount
                /\ r2.date = r.date
                /\ r2.note = r.note
                /\ CircleNameIn(dbCircles, r2.circleId)
                       = CircleNameIn(backup.circles, r.circleId)

\* A line that ends with the id field of the earlier export
IsLegacyRecordLine(line) == MatchFrom(LegacyRecordLinePattern, 1, line, 1).ok

\* The line without that field
WithoutLegacyId(line) ==
    LET m == MatchFrom(LegacyRecordLinePattern, 1, line, 1)
        noteItem == SetMax({k \in 1..Len(LegacyRecordLinePattern) :
                               LegacyRecordLinePattern[k].grp = 4})
    IN SubSeq(line, 1, m.ends[noteItem] - 1)

\* C5: every line of an imported text that ends with the id field of the
\* earlier export parses to the record its line without the field parses
\* to.
C5_LegacyIdFieldIsIgnored ==
    imp.pc # "idle" =>
        \A line \in Range(Split(imp.text)) :
            IsLegacyRecordLine(Trim(line)) =>
                ParseRecordLine(Trim(line)) = ParseRecordLine(WithoutLegacyId(Trim(line)))

\* C6: an import that has failed leaves the store's circles and records as
\* they were when it started.
C6_FailedImportChangesNothing ==
    imp.pc = "failed" =>
        /\ dbCircles = imp.circlesBefore
        /\ dbRecords = imp.recordsBefore

\* The circle names the file mentions
FileNames ==
    {imp.parsedCircles[j].name : j \in 1..Len(imp.parsedCircles)}
        \cup {imp.parsedRecords[j].circleName : j \in 1..Len(imp.parsedRecords)}

\* A record of the loop that was not skipped names the circle
NamedByKeptRecord(name) ==
    \E j \in 1..Len(imp.skipped) :
        ~imp.skipped[j] /\ imp.parsedRecords[j].circleName = name

\* A circle line names the circle and its id is not the id of a circle the
\* account had
NamedByUnknownCircleLine(name) ==
    \E pc \in Range(imp.parsedCircles) :
        pc.name = name /\ ~HasId(imp.circlesBefore, pc.id)

\* The records of the loop that were not skipped and name the same circle
\* resolved to the same circle id, and every circle the loop knows is in
\* the store
ResolvedAlike ==
    /\ \A j, k \in 1..Len(imp.skipped) :
          (/\ ~imp.skipped[j] /\ ~imp.skipped[k]
           /\ imp.parsedRecords[j].circleName = imp.parsedRecords[k].circleName)
              => imp.resolved[j] = imp.resolved[k]
    /\ Range(imp.updatedCircles) \subseteq Range(dbCircles)

Intact == an.wrap \in {"bare", "fenced", "commented"}

\* analyzeText is past the parse of the completion text
PastParse ==
    \/ an.pc \in {"map", "returned"}
    \/ an.pc = "threw" /\ an.error \in {"parse", "map"}

\* An object with an amount or an isWin key
RecordShaped(v) ==
    v.t = "obj" /\ \E i \in 1..Len(v.keys) : v.keys[i] \in {<<"amount">>, <<"isWin">>}

\* An object with exactly one key, whose value is an array
SingleArrayWrapper(v) == v.t = "obj" /\ Len(v.keys) = 1 /\ v.items[1].t = "arr"

\* C8: for a completion that is the JSON text of a payload, bare, fenced or
\* inside commentary, the parse does not throw and the list of candidates
\* is: the elements of the payload when it is an array; the payload alone
\* when it is an object with an amount or an isWin key; the elements of the
\* wrapped array when it is another object with exactly one key whose value
\* is an array.
C8_PayloadShapesAreRecovered ==
    (PastParse /\ Intact) =>
        /\ an.payload.t = "arr" =>
              (an.error # "parse" /\ an.data = an.payload.items)
        /\ RecordShaped(an.payload) =>
              (an.error # "parse" /\ an.data = <<an.payload>>)
        /\ (SingleArrayWrapper(an.payload) /\ ~RecordShaped(an.payload)) =>
              (an.error # "parse" /\ an.data = an.payload.items[1].items)

\* C9: analyzeText returns a list only for a completion whose payload is an
\* array, an object with an amount or an isWin key, or an object with
\* exactly one key whose value is an array; and never for an empty
\* completion.
C9_UnrecoverableCompletionThrows ==
    an.pc = "returned" =>
        /\ an.completion # <<>>
        /\ Intact =>
              \/ an.payload.t = "arr"
              \/ RecordShaped(an.payload)
              \/ SingleArrayWrapper(an.payload)

\* How many candidates of the list have (zero = TRUE) or do not have
\* (zero = FALSE) the amount 0
CountAmount(list, zero) ==
    Cardinality({i \in 1..Len(list) : (list[i].amount = 0) = zero})

Absent(v) == v.t \in {"undefined", "null"}

\* The field of the candidate is not a number nor the text of one
NonNumeric(v) ==
    \/ v.t \in {"undefined", "obj"}
    \/ v.t = "str" /\ StringToNumber(v.s).nan

\* C11: every record analyzeText returns has a non-negative amount, 0 when
\* the candidate's amount is absent or not numeric; a boolean isWin; the
\* candidate's date when it has one and today's date otherwise; a string
\* note, empty when the candidate has none; and a circleName that is
\* absent or a non-empty string.
C11_CoercionYieldsWellTypedRecords ==
    an.pc = "returned" =>
        \A i \in 1..Len(an.mapped) :
            LET item == an.data[i]
                rec == an.mapped[i]
            IN rec \in Range(an.result) =>
                  /\ rec.amount >= 0
                  /\ NonNumeric(Get(item, <<"amount">>)) => rec.amount = 0
                  /\ rec.isWin \in BOOLEAN
                  /\ rec.date = IF Truthy(Get(item, <<"date">>))
                                THEN Get(item, <<"date">>) ELSE JStr(Today)
                  /\ rec.note.t = "str"
                  /\ Absent(Get(item, <<"note">>)) => rec.note = JStr(<<>>)
                  /\ \/ rec.circleName = Undefined
                     \/ rec.circleName.t = "str" /\ rec.circleName.s # <<>>

\* The message ends with the text
EndsWithText(message, text) ==
    /\ Len(message) >= Len(text)
    /\ SubSeq(message, Len(message) - Len(text) + 1, Len(message)) = text

\* The message has the words of the missing key error
SaysKeyIsMissing(message) ==
    \E i \in 1..Len(message) : message[i] = ApiKeyIsMissing[1]

\* analyzeText failed on the request, the answer or the completion
FailedPastKeyCheck == an.pc = "threw" /\ an.error \in {"network", "http", "parse", "map"}

\* Without a key analyzeText throws before any request, with the message
\* 'API Key is missing', which no other failure reports
MissingKeyFailsFirst ==
    /\ (~an.key /\ an.pc # "start") =>
          (an.pc = "threw" /\ an.error = "key" /\ an.message = ApiKeyIsMissing)
    /\ ~an.key => an.requests = 0
    /\ FailedPastKeyCheck => an.message # ApiKeyIsMissing

OneRequest ==
    /\ an.requests <= 1
    /\ (an.pc = "threw" /\ an.error = "http") => an.requests = 1

\* The error ends with the server's message, or with the status code when
\* the server sent no message
PreservesResponse ==
    IF an.response.message # <<>>
    THEN EndsWithText(an.message, an.response.message)
    ELSE EndsWithText(an.message, IntToDigits(an.response.status))

IsSubstring(a, b) ==
    \E i \in 0..(Len(b) - Len(a)) : SubSeq(b, i + 1, i + Len(a)) = a

\* The circles whose name holds the name or is held by it
SubstringMatches(name, cs) ==
    {c \in Range(cs) : IsSubstring(name, c.name) \/ IsSubstring(c.name, name)}

\* The name is of no circle but is a part of the name of one
FuzzyOnly(name, cs) ==
    name # <<>> /\ ~HasName(cs, name) /\ SubstringMatches(name, cs) # {}

\* The name is of no circle, nor a part of the name of one
Unmatched(name, cs) ==
    name # <<>> /\ ~HasName(cs, name) /\ SubstringMatches(name, cs) = {}

\* C14: a result whose circle name is of no known circle but is a part of
\* the name of one (<tong shi> with the circles <tong shi quan> and <lao
\* tong xue>) goes to that circle: the record handleBatchImport saves for
\* it, and the form a single result fills, have that circle's id.
C14_FuzzyNameResolvesToKnownCircle ==
    /\ \A k \in 1..Len(ses.saved) :
          FuzzyOnly(ses.parsedResults[k].circleName, circles) =>
              \E c \in SubstringMatches(ses.parsedResults[k].circleName, circles) :
                  ses.saved[k].circleId = c.id
    /\ \A k \in 1..Len(ses.autofilled) :
          FuzzyOnly(ses.autofilled[k].res.circleName, circles) =>
              \E c \in SubstringMatches(ses.autofilled[k].res.circleName, circles) :
                  ses.circleId = c.id

\* C15: a result whose circle name matches no known circle, exactly or as
\* a part, gets a new circle of that name with an id no circle had, kept
\* in the list and written to the store, and the saved record is in it; a
\* result with no circle name is saved in the circle the form has
\* selected.
C15_UnmatchedNameMintsCircle ==
    \A k \in 1..Len(ses.saved) :
        LET name == ses.parsedResults[k].circleName
        IN /\ Unmatched(name, SessionCircles) =>
                 \E c \in Range(dbCircles) :
                     /\ c.name = name
                     /\ ~HasId(SessionCircles, c.id)
                     /\ HasId(circles, c.id)
                     /\ ses.saved[k].circleId = c.id
           /\ name = <<>> => ses.saved[k].circleId = ses.circleId

\* C18: at most one analyzeText call of the session is in flight.
C18_AtMostOneCallInFlight == Len(ses.calls) <= 1

\* C19: an analysis that has started ends: isAnalyzing returns to false.
C19_AnalysisEventuallyEnds == ses.isAnalyzing ~> ~ses.isAnalyzing

(***************************************************************************)
(* Properties of the circles of the account.                               *)
(***************************************************************************)
\* The identifiers of DEFAULT_CIRCLES
LiteralIds == {DEFAULT_CIRCLES[i].id : i \in 1..Len(DEFAULT_CIRCLES)}

\* No circle of the list has an identifier of DEFAULT_CIRCLES
NoLiteralId(cs) == \A i \in 1..Len(cs) : cs[i].id \notin LiteralIds

\* C16: the circles a fetchCircles call returns are not empty and none has
\* an identifier of DEFAULT_CIRCLES, also for a user with no circle and
\* when the read fails; nor has any circle of the list the app keeps.
C16_FetchedCirclesHaveFreshIds ==
    /\ fetched.made => (fetched.circles # <<>> /\ NoLiteralId(fetched.circles))
    /\ NoLiteralId(circles)

\* A record of the store is in the circle
Referenced(circleId) == hasRecordsInCircle(dbRecords, circleId)

\* C17: no step removes from the store a circle that a record of the
\* store is in.
C17_CircleWithRecordsStays ==
    [][\A i \in 1..Len(dbCircles) :
          Referenced(dbCircles[i].id) => HasId(dbCircles', dbCircles[i].id)]_vars

(***************************************************************************)
(* Properties of the start-up.                                             *)
(***************************************************************************)
\* The last getCurrentUser call resolved, to the user of the session when
\* the lookup gave one and to null otherwise
SettledWell ==
    auth.settled.made =>
        /\ ~auth.settled.rejected
        /\ auth.settled.user = IF auth.settled.how = "user" THEN "u1" ELSE "null"

\* C20: a getCurrentUser call never rejects: it resolves to null when the
\* session lookup answers with an error or with no user, when it rejects
\* and when the 5 s timer fires first; every call settles; and the
\* start-up leaves the initializing state.
C20_IdentityCheckDegrades ==
    /\ []SettledWell
    /\ (auth.calls # <<>>) ~> (auth.calls = <<>>)
    /\ <>(~auth.isInitializing)

\* A call has settled on its timer, to null, and the start-up is over
C20_Witness ==
    /\ auth.settled.made /\ auth.settled.how = "timeout" /\ auth.settled.user = "null"
    /\ auth.started > 0 /\ ~auth.isInitializing

(***************************************************************************)
(* Properties of the AddRecord session, continued.                         *)
(***************************************************************************)
\* A call the modal was closed on settles in this step
ClosedCallSettles ==
    \E i \in 1..Len(ses.calls) :
        /\ ses.calls[i].closed
        /\ ses'.calls = RemoveAt(ses.calls, i)

\* C21: when analyzeText settles for a call that was in flight when the
\* modal was closed, the candidate list, the form fields and the selected
\* circle stay as they are.
C21_LateResultIsDiscarded ==
    [][ClosedCallSettles =>
           /\ ses'.parsedResults = ses.parsedResults
           /\ ses'.form = ses.form
           /\ ses'.circleId = ses.circleId]_vars

\* This step is the confirmation of the candidate list
BatchConfirmed == ses.saved = <<>> /\ ses'.saved # <<>>

\* This step is the submit of the form
FormSubmitted == ses.submitted = <<>> /\ ses'.submitted # <<>>

\* C22: the circle store is never written from AddRecord, and the record
\* store only by the submit of the form and by the confirmation of the
\* candidate list; the confirmation creates every record of the list or
\* none.  No step of handleAnalyze or handleReAnalyze writes.
C22_StoreWrittenOnlyOnConfirmation ==
    [][/\ dbCircles' = dbCircles
       /\ dbRecords' # dbRecords => BatchConfirmed \/ FormSubmitted
       /\ BatchConfirmed => dbRecords' \in {dbRecords, dbRecords \o ses'.saved}
       /\ ses'.started # ses.started \/ Len(ses'.calls) # Len(ses.calls) =>
              dbRecords' = dbRecords]_vars

\* A list of two candidates was confirmed and both records are in the store
C22_Witness ==
    /\ Len(ses.saved) = 2 /\ Len(ses.parsedResults) = 2
    /\ \A k \in 1..2 : \E i \in 1..Len(dbRecords) : dbRecords[i] = ses.saved[k]
    /\ Len(dbRecords) = Len(SessionRecords) + 2

\* The sign of the amount is the win flag
SignEncodes(isWin, amount) == (isWin => amount >= 0) /\ (~isWin => amount <= 0)

\* The form was submitted as the edit effect loaded it
SavedUnchanged(e) ==
    /\ ses.initial # NoInitialRecord
    /\ e.form = EditForm(ses.initial)
    /\ e.circleId = ses.initial.circleId

\* What C27 says of the form: the sign, the entered amount, and the edit
\* that changes nothing
SubmitKeepsSign ==
    \A j \in 1..Len(ses.submitted) :
        LET e == ses.submitted[j]
        IN /\ SignEncodes(e.form.isWin, e.record.amount)
           /\ Abs(e.record.amount) = ParseFloat(e.form.amount)
           /\ SavedUnchanged(e) =>
                  /\ e.record.amount = ses.initial.amount
                  /\ e.record.id = ses.initial.id
                  /\ e.record.timestamp = ses.initial.timestamp
                  /\ dbRecords = SessionRecords
                  /\ records = SessionRecords

C27_EditWitness ==
    /\ ses.submitted # <<>>
    /\ ses.initial = SessionRecords[2]
    /\ SavedUnchanged(ses.submitted[1])
    /\ ~ses.submitted[1].threw

(***************************************************************************)
(* Properties of the failures of handleImport.                             *)
(***************************************************************************)
\* The error signals an authorization failure: status 403, code 42501, or
\* a message about row-level security
SignalsAuthorization(error) ==
    \/ error.status = 403
    \/ error.code = "42501"
    \/ MessageIncludes(error, "row-level security policy")
    \/ MessageIncludes(error, "violates row-level security")

\* C23: a failed import shows the alert to sign in again exactly
\* when its error signals an authorization failure, and the alert that the
\* import failed otherwise.
C23_FailureIsClassified ==
    imp.pc = "failed" =>
        imp.alert = IF SignalsAuthorization(imp.error) THEN "reauth" ELSE "failure"

(***************************************************************************)
(* Properties of the line scan of handleImport.                            *)
(***************************************************************************)
\* The section the scan is in when it comes to the i-th line
SectionAt(lines, i) ==
    ScanLines([section |-> "", circles |-> <<>>, records |-> <<>>],
              SubSeq(lines, 1, i - 1)).section

\* The i-th line is a line of the circle or record section that is not of
\* the section's grammar (a line in brackets is a section header, not a
\* line of a section)
MalformedAt(lines, i) ==
    LET trimmedLine == Trim(lines[i])
    IN /\ trimmedLine # <<>>
       /\ ~(StartsWith(trimmedLine, "[") /\ EndsWith(trimmedLine, "]"))
       /\ \/ SectionAt(lines, i) = "circles" /\ ~ParseCircleLine(trimmedLine).ok
          \/ SectionAt(lines, i) = "records" /\ ~ParseRecordLine(trimmedLine).ok

\* The file of the import has a malformed line
HasMalformedLine ==
    \E i \in 1..Len(Split(imp.text)) : MalformedAt(Split(imp.text), i)

\* C24: a malformed line of the circle or record section is skipped: the
\* circles and records handleImport parses are those of the file without
\* the line, and no failure comes of it; an import of a file with a
\* malformed line into a store with no records ends with one record for
\* each well-formed record line.  (What was parsed is compared where
\* handleImport has just parsed it: no later step changes it.)
C24_MalformedLineIsSkipped ==
    imp.pc # "idle" =>
        LET lines == Split(imp.text)
        IN /\ imp.pc \in {"fetchCircles1", "failed"} =>
                 \A i \in 1..Len(lines) :
                     MalformedAt(lines, i) =>
                         LET without == ParseBackup(Join(RemoveAt(lines, i)))
                         IN /\ without.circles = imp.parsedCircles
                            /\ without.records = imp.parsedRecords
           /\ imp.pc = "failed" =>
                 imp.parsedCircles = <<>> /\ imp.parsedRecords = <<>>
           /\ imp.pc = "done" /\ imp.recordsBefore = <<>> /\ HasMalformedLine =>
                 /\ Len(dbRecords) = Len(imp.parsedRecords)
                 /\ \A k \in 1..Len(dbRecords) :
                       /\ dbRecords[k].date = imp.parsedRecords[k].date
                       /\ dbRecords[k].amount = imp.parsedRecords[k].amount
                       /\ dbRecords[k].note = imp.parsedRecords[k].note

\* The file with a record line that lacks a separator and two well-formed
\* record lines was imported into a store with no records: two records
C24_Witness ==
    /\ imp.pc = "done" /\ imp.text = HandFile2 /\ imp.recordsBefore = <<>>
    /\ HasMalformedLine
    /\ Len(imp.parsedRecords) = 2 /\ Len(dbRecords) = 2

(***************************************************************************)
(* Properties of the account reset.                                        *)
(***************************************************************************)
\* The circles are the default circles and no other
OnlyDefaultCircles(cs) ==
    /\ Len(cs) = Len(DEFAULT_CIRCLES)
    /\ \A i \in 1..Len(cs) :
          /\ cs[i].name = DEFAULT_CIRCLES[i].name
          /\ cs[i].isDefault = DEFAULT_CIRCLES[i].isDefault

\* C25: when handleClearData succeeds, the store and the app have no
\* record, and the circles of both are the default circles and no other.
C25_ClearDataResetsAccount ==
    [][handleClearData /\ faultBudget' = faultBudget =>
           /\ dbRecords' = <<>> /\ records' = <<>>
           /\ OnlyDefaultCircles(dbCircles')
           /\ OnlyDefaultCircles(circles')]_vars

(***************************************************************************)
(* Properties of the commit of handleImport.                               *)
(***************************************************************************)
\* The circles handleImport made: those of its lists that the store did
\* not have when the import began (the constant circles a failed read
\* answers with are not made by the import)
CreatedByImport ==
    { c \in Range(imp.circlesToSync) \cup Range(imp.updatedCircles) :
         ~HasId(imp.circlesBefore, c.id) /\ c.id \notin LiteralIds }

\* C26: when handleImport comes to insert its records, every circle it
\* made is in the store, and so is the circle of every record it inserts.
C26_CirclesPersistedBeforeRecords ==
    [][ImportCommit =>
           /\ \A c \in CreatedByImport : HasId(dbCircles, c.id)
           /\ \A k \in 1..Len(imp.newRecords) :
                 HasId(dbCircles, imp.newRecords[k].circleId)]_vars

(***************************************************************************)
(* Properties of the calls that overlap.                                   *)
(***************************************************************************)
\* Every fetchCircles call that was made has returned
AllReturned ==
    /\ inflight # <<>>
    /\ \A i \in 1..Len(inflight) : inflight[i].pc = "returned"

\* C28: when the fetchCircles calls have returned, the store has a circle,
\* and every circle of every list returned is in the store.
C28_FirstAccessLeavesCircles ==
    AllReturned =>
        /\ dbCircles # <<>>
        /\ \A i \in 1..Len(inflight) :
              \A k \in 1..Len(inflight[i].ret) :
                  HasId(dbCircles, inflight[i].ret[k].id)

\* C29: the records and circles App holds are none, or those of the user
\* who is signed in.
C29_NoCrossUserData ==
    /\ records = <<>> \/ (auth.user # "null" /\ records = UserRecords(auth.user))
    /\ circles = <<>> \/ (auth.user # "null" /\ circles = UserCircles(auth.user))

\* This step is the catch of a handleSaveRecord or handleDeleteRecord call
RollbackStep ==
    \E i \in 1..Len(inflight) :
        /\ inflight[i].pc = "persist"
        /\ inflight'[i].pc = "returned" /\ ~inflight'[i].ok

\* C30: when the rollback of a failed save or delete leaves no call in
\* flight, App holds exactly the records of the store: no record whose
\* delete succeeded is back, no record whose save succeeded is gone.
C30_RollbackAgreesWithStore ==
    [][RollbackStep /\ (\A i \in 1..Len(inflight') : inflight'[i].pc = "returned")
           => Range(records') = Range(dbRecords')]_vars
====
